---- MODULE Spec2Model ----
(***************************************************************************)
(* A model of the MLCast dataset validator: the report data model          *)
(* (specs/reporting.py), the CF coordinate rule matcher and the coordinate *)
(* name check (checks/coords/names.py), the radar precipitation pipeline   *)
(* (specs/source_data/radar_precipitation.py) and the command line entry   *)
(* point (specs/cli.py).                                                   *)
(*                                                                         *)
(* The module holds several specifications over one set of variables; a    *)
(* specification leaves the variables of the other parts at their initial  *)
(* values.                                                                 *)
(*   SpecReport    add() and the two merges on reports grown from empty    *)
(*   SpecMerge     the two merges applied to arbitrary report values       *)
(*   SpecCoords    the coordinate matcher and check_coordinate_names on    *)
(*                 datasets built from a pool of coordinates               *)
(*   SpecCli       main() of the command line running validate_dataset     *)
(*   SpecChecks    the checks of the data variables and of the global      *)
(*                 attributes, called on datasets built from pools         *)
(*   SpecOracles   the checks that ask GitHub, GDAL or cartopy             *)
(***************************************************************************)
EXTENDS Integers, Sequences, FiniteSets, TLC

VARIABLES
    A,        \* a ValidationReport: [ok, results]
    B,        \* a second ValidationReport (a partial report to be merged)
    sum,      \* <<r>> when r is the report last returned by A + B, else <<>>
    pre,      \* the value of A before the last operation (history)
    raised,   \* TRUE iff the last operation raised ValueError
    lastOp,   \* the last operation: [op, target, status]
    ds,       \* ds.coords: the coordinates in insertion order, [name, attrs]
    coordOp,  \* the last call on ds and what it returned or raised
    pc,       \* where main() of the command line is
    idx,      \* the number of the next check of validate_dataset
    report,   \* the report validate_dataset accumulates
    returned, \* the reports the checks have returned so far, in call order
    exitStatus, \* what main() returned (NotExited while it runs)
    effects,  \* what main() has done so far: a set of "module_loaded",
              \* "dataset_opened", "catalog_printed", "report_printed"
    dataset,  \* ds.attrs of the dataset validate_dataset opened
    args,     \* the parsed command line: [list, data_stage, product, dataset_path]
    dataVars, \* ds.data_vars: the data variables in insertion order
    globalAttrs, \* ds.attrs: the global attributes
    timeSteps,   \* what the time coordinate of ds looks like
    checkOp,  \* the last check called on the dataset and what came of it
    oracleOp, \* the last oracle-backed check called and what came of it
    heap,     \* the dataset objects by id(): "free" or the time coordinate
    _TIMESTEP_CACHE, \* the module's cache: id -> (has_variable, count)
    analysis, \* the last analyze_dataset_timesteps call and what came of it
    CHECK_REGISTRY,  \* the module's registry: key -> "real" or "stub"
    decorated,   \* the keys whose wrapper log_function_call has returned
    outside,     \* the keys decorated while no skip_all_checks was active
    patches,     \* the registries saved by the active skip_all_checks
    checkCall    \* the last call of a wrapper and what came of it; early
                 \* iff its key was decorated outside skip_all_checks
    ,
    lists,    \* the list objects: list id -> the statuses of its Results
    objects,  \* the reports "A", "B" and "S" (the last A + B, results 0
              \* while there is none): [ok, results |-> list id]
    heapOp    \* the last operation on them, and what the reports held
              \* before it

reportVars == <<A, B, sum, pre, raised, lastOp>>
coordVars == <<ds, coordOp>>
cliVars == <<pc, idx, report, returned, exitStatus, effects, dataset, args>>
checkVars == <<dataVars, globalAttrs, timeSteps, checkOp>>
oracleVars == <<oracleOp>>
cacheVars == <<heap, _TIMESTEP_CACHE, analysis>>
registryVars == <<CHECK_REGISTRY, decorated, outside, patches, checkCall>>
aliasVars == <<lists, objects, heapOp>>

vars == <<reportVars, coordVars, cliVars, checkVars, oracleVars, cacheVars,
          registryVars, aliasVars>>

\* The variables an operation of one part leaves alone.
notReport == <<coordVars, cliVars, checkVars, oracleVars,
    cacheVars, registryVars, aliasVars>>
notCoords == <<reportVars, cliVars, checkVars, oracleVars,
    cacheVars, registryVars, aliasVars>>
notCli == <<reportVars, coordVars, checkVars, oracleVars,
    cacheVars, registryVars, aliasVars>>
notChecks == <<reportVars, coordVars, cliVars, oracleVars,
    cacheVars, registryVars, aliasVars>>
notOracles == <<reportVars, coordVars, cliVars, checkVars,
    cacheVars, registryVars, aliasVars>>
notCache == <<reportVars, coordVars, cliVars, checkVars, oracleVars,
    registryVars, aliasVars>>
notRegistry == <<reportVars, coordVars, cliVars, checkVars, oracleVars,
    cacheVars, aliasVars>>
notAlias == <<reportVars, coordVars, cliVars, checkVars, oracleVars,
    cacheVars, registryVars>>

(***************************************************************************)
(* Bounds of the model.                                                    *)
(***************************************************************************)
MaxResults == 3       \* longest result list of a report in SpecReport
MaxOperandLen == 2    \* longest result list of an operand in SpecMerge
MaxCoords == 2        \* most coordinates of a dataset in SpecCoords
MaxFindings == 2      \* most results the abstract checks add to the report in SpecCli
MaxVars == 2          \* most data variables of a dataset in SpecChecks

(***************************************************************************)
(* specs/reporting.py: Result and ValidationReport.                        *)
(***************************************************************************)
valid_levels == {"FAIL", "WARNING", "PASS"}

\* Status arguments a caller may pass; the add() docstring itself names "INFO".
StatusArgs == valid_levels \cup {"INFO", "SKIP"}

SectionArgs == {"3.1"}
RequirementArgs == {"req"}
\* A detail text is a sequence of text fragments; <<>> is the empty string.
DetailArgs == {<<>>}

\* Result.__post_init__: TRUE iff construction raises ValueError.
ResultRaises(status) == status \notin valid_levels

\* The dataclass Result as constructed by a successful Result(...).
Result(section, requirement, status, detail) ==
    [section |-> section, requirement |-> requirement, status |-> status,
     detail |-> detail, module |-> "None", function |-> "None"]

\* ValidationReport(ok=..., results=[]) : the dataclass constructor.
ValidationReport(ok) == [ok |-> ok, results |-> <<>>]

EmptyReport == ValidationReport(TRUE)

\* A mutation of add(): the result is appended without being validated.
ReportAddUnchecked(self, section, requirement, status, detail) ==
    [raised |-> FALSE,
     self |-> [self EXCEPT !.results =
                  Append(@, Result(section, requirement, status, detail))]]

\* A mutation of add(): the new result is put in front of the list.
ReportAddFront(self, section, requirement, status, detail) ==
    IF ResultRaises(status)
    THEN [raised |-> TRUE, self |-> self]
    ELSE [raised |-> FALSE,
          self |-> [self EXCEPT !.results =
                       <<Result(section, requirement, status, detail)>> \o @]]

\* ValidationReport.add: Result(...) is built first (and may raise), then
\* appended; ok is not touched.
ReportAdd(self, section, requirement, status, detail) ==
    IF ResultRaises(status)
    THEN [raised |-> TRUE, self |-> self]
    ELSE [raised |-> FALSE,
          self |-> [self EXCEPT !.results =
                       Append(@, Result(section, requirement, status, detail))]]

\* A mutation of __iadd__: the other report's results are put in front.
ReportIAddFront(self, other) ==
    [ok |-> self.ok /\ other.ok, results |-> other.results \o self.results]

\* ValidationReport.__iadd__: the value of self after `self += other`.
ReportIAdd(self, other) ==
    [ok |-> self.ok /\ other.ok, results |-> self.results \o other.results]

\* A mutation of __add__: the operands are concatenated right-then-left.
ReportPlusSwapped(self, other) ==
    [ok |-> self.ok /\ other.ok, results |-> other.results \o self.results]

\* ValidationReport.__add__: the new report returned by `self + other`.
ReportPlus(self, other) ==
    [ValidationReport(self.ok /\ other.ok)
        EXCEPT !.results = self.results \o other.results]

\* A mutation of has_fails(): the ok flag is consulted instead of the results.
HasFailsFromOk(rep) == ~rep.ok

\* ValidationReport.has_fails
has_fails(rep) ==
    \E i \in 1..Len(rep.results) : rep.results[i].status = "FAIL"

NoOp == [op |-> "none", target |-> "none", status |-> "none"]

(***************************************************************************)
(* Attribute values and strings.  A Python string is kept as its           *)
(* case-folded, trimmed text, the case of its letters ("lower", "upper",   *)
(* "mixed", or "none" when it has no letters) and whether it carries       *)
(* leading or trailing white space; strip(), lower() and upper() act on    *)
(* that.  kind tells a string from None and from a non-string value.       *)
(***************************************************************************)
Str(text, case, pad) == [kind |-> "str", text |-> text, case |-> case, pad |-> pad]

Lit(text) == Str(text, "lower", FALSE)       \* an all-lower-case literal
Up(text) == Str(text, "upper", FALSE)        \* an all-upper-case literal
Frag(text) == Str(text, "mixed", FALSE)      \* a fragment of message text

None == [kind |-> "none", text |-> "", case |-> "none", pad |-> FALSE]

\* a non-string attribute value, the integer 1
IntOne == [kind |-> "int", text |-> "1", case |-> "none", pad |-> FALSE]

\* str.strip()
strip(v) == [v EXCEPT !.pad = FALSE]

\* str.lower()
lower(v) == [v EXCEPT !.case = IF @ = "none" THEN "none" ELSE "lower"]

\* str.upper()
upper(v) == [v EXCEPT !.case = IF @ = "none" THEN "none" ELSE "upper"]

\* str(value)
str(v) == [v EXCEPT !.kind = "str"]

\* f"'{name}'"
Quoted(v) == [str(v) EXCEPT !.kind = "quoted"]

\* the elements of a tuple
Range(f) == {f[i] : i \in DOMAIN f}

\* the sequences over S of length at most n
RECURSIVE SeqsUpTo(_, _)
SeqsUpTo(S, n) ==
    IF n = 0 THEN {<<>>}
    ELSE LET shorter == SeqsUpTo(S, n - 1) IN
         shorter \cup {Append(s, x) : s \in shorter, x \in S}

(***************************************************************************)
(* checks/coords/names.py: the rule table and the matcher.                 *)
(***************************************************************************)
SECTION_ID == "3.1"

_LAT_UNITS ==
    {Lit("degrees_north"), Lit("degree_north"), Lit("degrees_n"),
     Lit("degree_n"), Lit("deg_n")}

_LON_UNITS ==
    {Lit("degrees_east"), Lit("degree_east"), Lit("degrees_e"),
     Lit("degree_e"), Lit("deg_e")}

_LINEAR_DISTANCE_UNITS ==
    {Lit("m"), Lit("meter"), Lit("meters"), Lit("metre"), Lit("metres"),
     Lit("km"), Lit("kilometer"), Lit("kilometers"), Lit("kilometre"),
     Lit("kilometres")}

\* One entry of a rule dictionary, in the dictionary's order.
On(attr, allowed) == [attr |-> attr, allowed |-> allowed]

Categories == {"lat", "lon", "x", "y", "time"}

_COORD_RULES ==
    [lat |-> << <<On("standard_name", {Lit("latitude")})>>,
                <<On("axis", {Up("y")}), On("units", _LAT_UNITS)>>,
                <<On("name", {Lit("lat"), Lit("latitude")})>> >>,
     lon |-> << <<On("standard_name", {Lit("longitude")})>>,
                <<On("axis", {Up("x")}), On("units", _LON_UNITS)>>,
                <<On("name", {Lit("lon"), Lit("longitude")})>> >>,
     x |-> << <<On("standard_name", {Lit("projection_x_coordinate")})>>,
              <<On("axis", {Up("x")}), On("units", _LINEAR_DISTANCE_UNITS)>>,
              <<On("name", {Lit("x"), Lit("easting")})>> >>,
     y |-> << <<On("standard_name", {Lit("projection_y_coordinate")})>>,
              <<On("axis", {Up("y")}), On("units", _LINEAR_DISTANCE_UNITS)>>,
              <<On("name", {Lit("y"), Lit("northing")})>> >>,
     time |-> << <<On("standard_name", {Lit("time")})>>,
                 <<On("axis", {Up("t")})>>,
                 <<On("name", {Lit("time")})>> >>]

_normalize(value) == lower(strip(value))

\* value.strip().upper() of the axis branch
AxisNormalized(value) == upper(strip(value))

\* _matches_rule from the i-th entry of the rule on: "True", "False", or
\* "raise" when value.strip() is called on a value that is not a string.
RECURSIVE _matches_rule(_, _, _, _)
_matches_rule(coord_name, attrs, rule, i) ==
    IF i > Len(rule) THEN "True"
    ELSE LET attr == rule[i].attr
             allowed == rule[i].allowed
             value == IF attr = "name" THEN coord_name ELSE attrs[attr]
         IN IF value.kind = "none" THEN "False"
            ELSE IF attr = "axis"
            THEN IF value.kind # "str" THEN "raise"
                 ELSE IF AxisNormalized(value) \notin
                             {upper(strip(str(o))) : o \in allowed}
                      THEN "False"
                      ELSE _matches_rule(coord_name, attrs, rule, i + 1)
            ELSE IF _normalize(str(value)) \notin
                        {_normalize(str(o)) : o \in allowed}
                 THEN "False"
                 ELSE _matches_rule(coord_name, attrs, rule, i + 1)

\* any(_matches_rule(name, var, rule) for rule in rules), from rule j on:
\* the generator stops at the first True and an exception passes through.
RECURSIVE AnyRule(_, _, _, _)
AnyRule(coord_name, attrs, rules, j) ==
    IF j > Len(rules) THEN "False"
    ELSE LET m == _matches_rule(coord_name, attrs, rules[j], 1) IN
         IF m = "False" THEN AnyRule(coord_name, attrs, rules, j + 1) ELSE m

\* The loop of _find_coordinates from the i-th coordinate on.
RECURSIVE FindCoordinatesFrom(_, _, _, _)
FindCoordinatesFrom(coords, rules, i, matches) ==
    IF i > Len(coords) THEN [raised |-> FALSE, matches |-> matches]
    ELSE LET m == AnyRule(coords[i].name, coords[i].attrs, rules, 1) IN
         IF m = "raise" THEN [raised |-> TRUE, matches |-> <<>>]
         ELSE FindCoordinatesFrom(coords, rules, i + 1,
                  IF m = "True" THEN Append(matches, coords[i].name) ELSE matches)

\* _find_coordinates(ds, rules): [raised, matches]
_find_coordinates(coords, rules) == FindCoordinatesFrom(coords, rules, 1, <<>>)

\* _format_coord_list: 'none', or the quoted names joined by ", "
_format_coord_list(names) ==
    IF names = <<>> THEN <<Frag("none")>>
    ELSE [i \in 1..Len(names) |-> Quoted(names[i])]

\* The log_function_call wrapper: every result of the returned report is
\* stamped with the check's module and function name.
log_function_call(rep, module, function) ==
    [rep EXCEPT !.results =
        [i \in 1..Len(rep.results) |->
            [rep.results[i] EXCEPT !.module = module, !.function = function]]]

\* report.add(...) with a status the check itself wrote
Added(rep, requirement, status, detail) ==
    ReportAdd(rep, SECTION_ID, requirement, status, detail).self

\* A mutation of the check: the "neither pair" failure is raised whenever
\* one of the two pairs is incomplete.
NeitherPairEither(geographic_ok, projected_ok) == ~(geographic_ok /\ projected_ok)

\* `if not (geographic_ok or projected_ok)`
NeitherPair(geographic_ok, projected_ok) == ~(geographic_ok \/ projected_ok)

NAMES_MODULE == "mlcast_dataset_validator.checks.coords.names"

\* check_coordinate_names(ds, require_time_coord=cfg.time,
\* require_projected_coords=cfg.projected, require_latlon_coords=cfg.latlon)
\* as called through its log_function_call wrapper: [raised, report].
check_coordinate_names(coords, cfg) ==
    LET time_coords == _find_coordinates(coords, _COORD_RULES["time"])
        lat_coords == _find_coordinates(coords, _COORD_RULES["lat"])
        lon_coords == _find_coordinates(coords, _COORD_RULES["lon"])
        x_coords == _find_coordinates(coords, _COORD_RULES["x"])
        y_coords == _find_coordinates(coords, _COORD_RULES["y"])
        r0 == EmptyReport
        r1 == IF time_coords.matches # <<>>
              THEN Added(r0, "Time coordinate presence", "PASS",
                       <<Frag("CF-compliant time coordinate(s) found:")>>
                       \o _format_coord_list(time_coords.matches))
              ELSE IF cfg.time
              THEN Added(r0, "Time coordinate presence", "FAIL",
                       <<Frag("Dataset is missing a CF-compliant time coordinate")>>)
              ELSE r0
        geographic_ok == lat_coords.matches # <<>> /\ lon_coords.matches # <<>>
        projected_ok == x_coords.matches # <<>> /\ y_coords.matches # <<>>
        r2 == IF geographic_ok
              THEN Added(r1, "Latitude/longitude coordinates", "PASS",
                       <<Frag("CF-compliant latitude")>>
                       \o _format_coord_list(lat_coords.matches)
                       \o <<Frag("and longitude")>>
                       \o _format_coord_list(lon_coords.matches)
                       \o <<Frag("coordinates detected.")>>)
              ELSE r1
        r3 == IF projected_ok
              THEN Added(r2, "Projected coordinates", "PASS",
                       <<Frag("CF-compliant projected x")>>
                       \o _format_coord_list(x_coords.matches)
                       \o <<Frag("and y")>>
                       \o _format_coord_list(y_coords.matches)
                       \o <<Frag("coordinates detected.")>>)
              ELSE r2
        f1 == IF cfg.latlon /\ ~geographic_ok
              THEN <<Frag("Latitude/longitude coordinates are required but no CF-compliant pair was found.")>>
              ELSE <<>>
        f2 == IF cfg.projected /\ ~projected_ok
              THEN <<Frag("Projected x/y coordinates are required but no CF-compliant pair was found.")>>
              ELSE <<>>
        missing_geo ==
            (IF lat_coords.matches = <<>> THEN <<Lit("latitude")>> ELSE <<>>)
            \o (IF lon_coords.matches = <<>> THEN <<Lit("longitude")>> ELSE <<>>)
        missing_proj ==
            (IF x_coords.matches = <<>> THEN <<Lit("projection_x_coordinate")>> ELSE <<>>)
            \o (IF y_coords.matches = <<>> THEN <<Lit("projection_y_coordinate")>> ELSE <<>>)
        f3 == IF NeitherPair(geographic_ok, projected_ok)
              THEN <<Frag("Dataset must include CF-compliant latitude/longitude or projected coordinates."),
                     Frag("Latitude/longitude pair incomplete (missing CF-compliant")>>
                   \o missing_geo
                   \o <<Frag("coordinate)."),
                        Frag("Projected x/y pair incomplete (missing CF-compliant")>>
                   \o missing_proj
                   \o <<Frag("coordinate).")>>
              ELSE <<>>
        failures == f1 \o f2 \o f3
        r4 == IF failures # <<>>
              THEN Added(r3, "Coordinate reference compliance", "FAIL", failures)
              ELSE r3
    IN IF \/ time_coords.raised \/ lat_coords.raised \/ lon_coords.raised
          \/ x_coords.raised \/ y_coords.raised
       THEN [raised |-> TRUE, report |-> EmptyReport]
       ELSE [raised |-> FALSE,
             report |-> log_function_call(r4, NAMES_MODULE, "check_coordinate_names")]

NoConfig == [time |-> FALSE, projected |-> FALSE, latlon |-> FALSE]

NoCoordOp ==
    [op |-> "none", cat |-> "none", cfg |-> NoConfig, raised |-> FALSE,
     matches |-> <<>>, report |-> EmptyReport]

IdleCoords ==
    /\ ds = <<>>
    /\ coordOp = NoCoordOp

(***************************************************************************)
(* ds.data_vars: a data variable is its name (the key), its attributes,    *)
(* the chunks of its data and the encoding it was stored with.             *)
(***************************************************************************)
\* a key that is not in an attribute dictionary
Absent == [kind |-> "absent", text |-> "", case |-> "none", pad |-> FALSE]

\* an integer as it appears in a value or in a formatted text
Num(n) == [kind |-> "int", text |-> ToString(n), case |-> "none", pad |-> FALSE]

\* bool(value) of an attribute value
Truthy(v) ==
    /\ v.kind \notin {"absent", "none"}
    /\ v.kind = "str" => v.text # ""

DataAttrs(long_name, standard_name, units, grid_mapping) ==
    [long_name |-> long_name, standard_name |-> standard_name,
     units |-> units, grid_mapping |-> grid_mapping]

\* data_array.data without a chunks attribute (a numpy array)
NotChunked == [dask |-> FALSE, chunks |-> <<>>]

\* data_array.data.chunks of a dask array: one tuple of sizes per dimension
Chunked(chunks) == [dask |-> TRUE, chunks |-> chunks]

\* da.encoding: "" stands for a missing or None entry
Encoding(compressor, compressors, filters) ==
    [compressor |-> compressor, compressors |-> compressors, filters |-> filters]

NoEncoding == Encoding("", <<>>, <<>>)

\* data_array.dims with data_array.sizes: <<name, size>> per dimension.  A
\* variable is a time, y, x field unless it is given other dimensions.
GridDims == << <<"time", 3>>, <<"y", 3>>, <<"x", 3>> >>

DataArray(name, attrs, data, encoding) ==
    [name |-> name, attrs |-> attrs, data |-> data, encoding |-> encoding,
     dims |-> GridDims]

\* the same variable with other dimensions
WithDims(v, dims) == [v EXCEPT !.dims = dims]

(***************************************************************************)
(* checks/tooling/__init__.py                                              *)
(***************************************************************************)
\* grid_mapping_definitions(ds): ds.variables are the data variables here
grid_mapping_definitions(dvs) ==
    {dvs[i].attrs.grid_mapping : i \in 1..Len(dvs)}
        \cap {v \in {dvs[j].name : j \in 1..Len(dvs)} : Truthy(v)}

\* iter_data_vars(ds, require_grid_mapping=...): the variables it yields,
\* in the order of ds.data_vars
iter_data_vars(dvs, require_grid_mapping) ==
    LET gm_vars == grid_mapping_definitions(dvs)
        Yielded(v) ==
            /\ v.name \notin gm_vars
            /\ require_grid_mapping => v.attrs.grid_mapping.kind # "absent"
    IN SelectSeq(dvs, Yielded)

\* report.add(section, requirement, status, detail) of a check
AddedIn(rep, section, requirement, status, detail) ==
    ReportAdd(rep, section, requirement, status, detail).self

\* what a check hands back: raised is "" when the check returned `report`;
\* origin[i] is the name of the variable whose loop turn added result i
Returned(rep, origin) == [raised |-> "", report |-> rep, origin |-> origin]

Raise(exception) == [raised |-> exception, report |-> EmptyReport, origin |-> <<>>]

(***************************************************************************)
(* checks/data_vars/naming.py                                              *)
(***************************************************************************)
NAMING_SECTION_ID == "4.4"

NAMING_MODULE == "mlcast_dataset_validator.checks.data_vars.naming"

_CF_RULES ==
    [rainfall_flux |->
        [names |-> <<Lit("mmh"), Lit("rr"), Lit("rain_rate"),
                     Lit("rainfall_rate"), Lit("rainfall_flux")>>,
         units |-> <<Lit("kg m-2 h-1"), Lit("mm h-1"), Lit("mm/h")>>,
         canonical_unit |-> Lit("kg m-2 h-1")],
     precipitation_flux |->
        [names |-> <<Lit("tprate"), Lit("prate")>>,
         units |-> <<Lit("kg m-2 h-1"), Lit("mm h-1"), Lit("mm/h")>>,
         canonical_unit |-> Lit("kg m-2 h-1")],
     equivalent_reflectivity_factor |->
        [names |-> <<Lit("equivalent_reflectivity_factor"), Lit("dbz"),
                     Lit("rare")>>,
         units |-> <<Frag("dbz")>>,                          \* "dBZ"
         canonical_unit |-> Frag("dbz")],
     precipitation_amount |->
        [names |-> <<Lit("rainfall_amount"), Lit("mm"),
                     Lit("precipitation_amount"), Lit("tp")>>,
         units |-> <<Lit("kg m-2"), Lit("mm")>>,
         canonical_unit |-> Lit("kg m-2")],
     rainfall_amount |->
        [names |-> <<Lit("rainfall_amount"), Lit("mm"),
                     Lit("precipitation_amount"), Lit("tp")>>,
         units |-> <<Lit("kg m-2"), Lit("mm")>>,
         canonical_unit |-> Lit("kg m-2")]]

\* `key in _CF_RULES` for a string key
InCfRules(key) ==
    /\ key.kind = "str"
    /\ key.case \in {"lower", "none"}
    /\ ~key.pad
    /\ key.text \in DOMAIN _CF_RULES

\* f"Required attribute '{missing_attr}'"
RequiredAttribute(missing_attr) == "Required attribute '" \o missing_attr \o "'"

\* next((attr for attr in ("long_name", "standard_name", "units")
\*       if attr not in data_array.attrs), None); "" stands for None
FirstMissing(attrs) ==
    IF attrs.long_name.kind = "absent" THEN "long_name"
    ELSE IF attrs.standard_name.kind = "absent" THEN "standard_name"
    ELSE IF attrs.units.kind = "absent" THEN "units"
    ELSE ""

\* the status of the units finding (naming.py:133-156)
UnitsStatus(units, allowed_units, canonical_unit) ==
    IF units \notin allowed_units THEN "FAIL"
    ELSE IF units # canonical_unit THEN "WARNING"
    ELSE "PASS"

\* One turn of the loop over the data variables: the findings it adds, as
\* <<requirement, status, detail>> triples, or a raised AttributeError.
NamingTurn(v, allowed_standard_names) ==
    LET missing_attr == FirstMissing(v.attrs) IN
    IF missing_attr # ""
    THEN [raised |-> "",
          added |-> << <<RequiredAttribute(missing_attr), "FAIL",
                         <<Quoted(Lit(missing_attr)),
                           Frag("attribute is missing on data variable"),
                           Quoted(v.name)>> >> >>]
    ELSE IF \/ v.attrs.standard_name.kind # "str"
            \/ v.attrs.units.kind # "str"
            \/ v.name.kind # "str"
    THEN [raised |-> "AttributeError", added |-> <<>>]
    ELSE
    LET standard_name == lower(strip(v.attrs.standard_name))
        units == strip(v.attrs.units)
        canonical_name == lower(strip(v.name))
    IN
    IF standard_name \notin allowed_standard_names
    THEN [raised |-> "",
          added |-> << <<"Standard name validation", "FAIL",
                         <<Frag("Standard name"), Quoted(standard_name),
                           Frag("is not permitted for this specification.")>> >> >>]
    ELSE IF ~InCfRules(standard_name)
    THEN [raised |-> "",
          added |-> << <<"Standard name validation", "FAIL",
                         <<Frag("Standard name"), Quoted(standard_name),
                           Frag("is not recognized for supported physical variables.")>> >> >>]
    ELSE
    LET matched_rule == _CF_RULES[standard_name.text]
        allowed_names == {lower(n) : n \in Range(matched_rule.names)}
        allowed_units == Range(matched_rule.units)
        canonical_unit == matched_rule.canonical_unit
        name_finding ==
            IF canonical_name \notin allowed_names
            THEN <<"Variable name validation", "FAIL",
                   <<Frag("Variable name"), Quoted(v.name),
                     Frag("is not allowed for standard_name"),
                     Quoted(standard_name), Frag("Allowed names:")>>
                   \o matched_rule.names>>
            ELSE <<"Variable name validation", "PASS",
                   <<Frag("Variable name"), Quoted(v.name),
                     Frag("matches the expected CF/ECMWF list.")>> >>
        units_status == UnitsStatus(units, allowed_units, canonical_unit)
        units_finding ==
            <<"Units validation", units_status,
              <<Frag("Units"), Quoted(units)>>
              \o (IF units_status = "FAIL"
                  THEN <<Frag("are not allowed for standard_name"),
                         Quoted(standard_name), Frag("(canonical:"),
                         canonical_unit>>
                  ELSE IF units_status = "WARNING"
                  THEN <<Frag("are permitted but the CF canonical unit is"),
                         Quoted(canonical_unit)>>
                  ELSE <<Frag("match the CF canonical unit.")>>)>>
    IN [raised |-> "", added |-> <<name_finding, units_finding>>]

\* the loop of a check over the variables from the i-th on; Turn(v) is one
\* turn of the loop
RECURSIVE NamingFrom(_, _, _, _, _)
NamingFrom(dvs, allowed_standard_names, i, rep, origin) ==
    IF i > Len(dvs) THEN Returned(rep, origin)
    ELSE LET t == NamingTurn(dvs[i], allowed_standard_names) IN
         IF t.raised # "" THEN Raise(t.raised)
         ELSE LET a == t.added
                  rep1 == IF Len(a) >= 1
                          THEN AddedIn(rep, NAMING_SECTION_ID, a[1][1], a[1][2], a[1][3])
                          ELSE rep
                  rep2 == IF Len(a) >= 2
                          THEN AddedIn(rep1, NAMING_SECTION_ID, a[2][1], a[2][2], a[2][3])
                          ELSE rep1
              IN NamingFrom(dvs, allowed_standard_names, i + 1, rep2,
                            origin \o [k \in 1..Len(a) |-> dvs[i].name])

\* naming.py:68-73: some allowed standard_name has no rule in _CF_RULES
MissingRule(allowed_standard_names) ==
    \E spec_name \in allowed_standard_names : ~InCfRules(spec_name)

\* check_names_and_attrs(ds, allowed_standard_names=names) through its
\* log_function_call wrapper
check_names_and_attrs(dvs, names) ==
    LET allowed_standard_names == {lower(n) : n \in names} IN
    IF MissingRule(allowed_standard_names) THEN Raise("NotImplementedError")
    ELSE LET r == NamingFrom(iter_data_vars(dvs, FALSE),
                             allowed_standard_names, 1, EmptyReport, <<>>)
         IN [r EXCEPT !.report =
                log_function_call(@, NAMING_MODULE, "check_names_and_attrs")]

(***************************************************************************)
(* checks/data_vars/chunking.py                                            *)
(***************************************************************************)
CHUNKING_SECTION_ID == "4.1"

CHUNKING_MODULE == "mlcast_dataset_validator.checks.data_vars.chunking"

\* the slice chunks[0][:5] of the FAIL detail
FoundShown == 5

\* s[:n]
Slice(s, n) == SubSeq(s, 1, IF Len(s) < n THEN Len(s) ELSE n)

\* One turn of the loop of check_chunking_strategy: the finding it adds,
\* or IndexError when chunks[0] is evaluated on an empty chunks tuple.
ChunkingTurn(v, time_chunksize) ==
    LET requirement == "Chunking strategy for " \o v.name.text
        chunks == v.data.chunks
    IN
    IF ~v.data.dask
    THEN [raised |-> "",
          added |-> << <<requirement, "WARNING",
                         <<Frag("Data not chunked (not a dask array)")>> >> >>]
    ELSE IF /\ Len(chunks) >= 1
            /\ \A k \in 1..Len(chunks[1]) : chunks[1][k] = time_chunksize
    THEN [raised |-> "",
          added |-> << <<requirement, "PASS",
                         <<Frag("Correct chunking:"), Num(time_chunksize),
                           Frag("chunk(s) per timestep")>> >> >>]
    ELSE IF Len(chunks) = 0
    THEN [raised |-> "IndexError", added |-> <<>>]
    ELSE [raised |-> "",
          added |-> << <<requirement, "FAIL",
                         <<Frag("Time dimension must be chunked as"),
                           Num(time_chunksize), Frag("per timestep. Found:")>>
                         \o [k \in 1..Len(Slice(chunks[1], FoundShown)) |->
                                Num(chunks[1][k])]
                         \o <<Frag("...")>> >> >>]

RECURSIVE ChunkingFrom(_, _, _, _, _)
ChunkingFrom(dvs, time_chunksize, i, rep, origin) ==
    IF i > Len(dvs) THEN Returned(rep, origin)
    ELSE LET t == ChunkingTurn(dvs[i], time_chunksize) IN
         IF t.raised # "" THEN Raise(t.raised)
         ELSE LET a == t.added[1] IN
              ChunkingFrom(dvs, time_chunksize, i + 1,
                  AddedIn(rep, CHUNKING_SECTION_ID, a[1], a[2], a[3]),
                  Append(origin, dvs[i].name))

\* check_chunking_strategy(ds, time_chunksize) through its wrapper
check_chunking_strategy(dvs, time_chunksize) ==
    LET r == ChunkingFrom(iter_data_vars(dvs, FALSE), time_chunksize, 1,
                          EmptyReport, <<>>)
    IN [r EXCEPT !.report =
           log_function_call(@, CHUNKING_MODULE, "check_chunking_strategy")]

(***************************************************************************)
(* checks/data_vars/compression.py                                         *)
(***************************************************************************)
COMPRESSION_SECTION_ID == "4.2"

COMPRESSION_MODULE == "mlcast_dataset_validator.checks.data_vars.compression"

\* the codec names get_compressor_name takes for compressors in a filter
\* pipeline; a codec is written by its lower-case codec_id
CompressorFamilies == {"zlib", "gzip", "bz2", "blosc", "zstd", "lz4", "snappy"}

\* the loop over enc["filters"] from the i-th filter on
RECURSIVE FirstCompressorFilter(_, _)
FirstCompressorFilter(filters, i) ==
    IF i > Len(filters) THEN Lit("none")
    ELSE IF filters[i] \in CompressorFamilies THEN Lit(filters[i])
    ELSE FirstCompressorFilter(filters, i + 1)

\* get_compressor_name(da): `enc.get("compressor") or enc.get("compressors")`
\* is the codec, or else the tuple of codecs, whose class name is "tuple"
get_compressor_name(enc) ==
    IF enc.compressor # "" THEN Lit(enc.compressor)
    ELSE IF enc.compressors # <<>> THEN Lit("tuple")
    ELSE FirstCompressorFilter(enc.filters, 1)

\* the variables check_compression looks at, as a set of names:
\* set(ds.data_vars) - {ds[var].attrs["grid_mapping"] for var with the key}
CompressionVars(dvs) ==
    {dvs[i].name : i \in 1..Len(dvs)}
        \ {dvs[i].attrs.grid_mapping : i \in {j \in 1..Len(dvs) :
                dvs[j].attrs.grid_mapping.kind # "absent"}}

\* One turn of the loop of check_compression.
CompressionTurn(v, require_compression, recommended_compression) ==
    LET compressor == get_compressor_name(v.encoding)
        requirement == v.name.text \o " array compression for " \o v.name.text
    IN
    IF require_compression
    THEN IF compressor = None
         THEN << <<requirement, "FAIL",
                   <<Quoted(v.name), Frag("data array does not use compression")>> >> >>
         ELSE IF compressor = recommended_compression
         THEN << <<requirement, "PASS",
                   <<Quoted(v.name), Frag("array uses recommended compression:"),
                     recommended_compression>> >> >>
         ELSE << <<requirement, "WARNING",
                   <<Quoted(v.name), Frag("array uses compression:"), compressor,
                     Frag("recommended is"), recommended_compression>> >> >>
    ELSE IF compressor = None
         THEN IF require_compression
              THEN << <<requirement, "FAIL",
                        <<Quoted(v.name), Frag("data array does not use compression")>> >> >>
              ELSE IF compressor = recommended_compression
              THEN << <<requirement, "PASS",
                        <<Quoted(v.name), Frag("array uses recommended compression:"),
                          recommended_compression>> >> >>
              ELSE <<>>
         ELSE <<>>

RECURSIVE CompressionFrom(_, _, _, _, _, _)
CompressionFrom(dvs, require_compression, recommended_compression, i, rep, origin) ==
    IF i > Len(dvs) THEN Returned(rep, origin)
    ELSE LET a == CompressionTurn(dvs[i], require_compression,
                                  recommended_compression)
         IN CompressionFrom(dvs, require_compression, recommended_compression,
                i + 1,
                IF a = <<>> THEN rep
                ELSE AddedIn(rep, COMPRESSION_SECTION_ID, a[1][1], a[1][2], a[1][3]),
                origin \o [k \in 1..Len(a) |-> dvs[i].name])

\* check_compression(ds, require_compression=..., recommended_compression=...)
\* through its wrapper; `order` is the order in which the set of variable
\* names happens to be iterated
check_compression(dvs, order, require_compression, recommended_compression) ==
    LET r == CompressionFrom(
                 [k \in 1..Len(order) |->
                     CHOOSE v \in Range(dvs) : v.name = order[k]],
                 require_compression, recommended_compression, 1,
                 EmptyReport, <<>>)
    IN [r EXCEPT !.report =
           log_function_call(@, COMPRESSION_MODULE, "check_compression")]

\* the orders in which a set of names can be iterated
Orders(names) ==
    {s \in SeqsUpTo(names, Cardinality(names)) :
        Len(s) = Cardinality(names) /\ \A n \in names : \E k \in 1..Len(s) : s[k] = n}

(***************************************************************************)
(* checks/coords/spatial.py                                                *)
(***************************************************************************)
SPATIAL_SECTION_ID == "3.3"

\* what the x and y coordinates amount to for the resolution finding:
\* <<>> when x or y is missing or has a single value, else the status
Resolutions == {"no_xy", "single_value", "fine", "coarse", "not_numeric"}

ResolutionFinding(resolution) ==
    IF resolution \in {"no_xy", "single_value"} THEN <<>>
    ELSE IF resolution = "fine" THEN <<"PASS">>
    ELSE IF resolution = "coarse" THEN <<"FAIL">>
    ELSE <<"WARNING">>

\* One turn of the loop over the data variables: <<requirement, status,
\* detail>>.  The requirement text is the source's "256x256 pixel support"
\* with its multiplication sign written as x.
SpatialTurn(v, min_crop_size) ==
    LET spatial_dims == SelectSeq(v.dims, LAMBDA d : d[1] \notin {"time", "t"})
        spatial_sizes == [k \in 1..Len(spatial_dims) |-> Num(spatial_dims[k][2])]
        crop == <<Num(min_crop_size[1]), Frag("x"), Num(min_crop_size[2]),
                  Frag("crops")>>
    IN
    IF Len(spatial_dims) < 2
    THEN <<"Spatial dimension check", "FAIL",
           <<Frag("Need at least 2 spatial dimensions for"), v.name>> >>
    ELSE IF \A k \in 1..Len(spatial_dims) : spatial_dims[k][2] >= min_crop_size[1]
    THEN <<"256x256 pixel support", "PASS",
           <<Frag("Spatial dimensions")>> \o spatial_sizes
               \o <<Frag("support")>> \o crop>>
    ELSE <<"256x256 pixel support", "FAIL",
           <<Frag("Spatial dimensions")>> \o spatial_sizes
               \o <<Frag("too small for")>> \o crop>>

RECURSIVE SpatialFrom(_, _, _, _, _)
SpatialFrom(dvs, min_crop_size, i, rep, origin) ==
    IF i > Len(dvs) THEN Returned(rep, origin)
    ELSE LET a == SpatialTurn(dvs[i], min_crop_size) IN
         SpatialFrom(dvs, min_crop_size, i + 1,
                     AddedIn(rep, SPATIAL_SECTION_ID, a[1], a[2], a[3]),
                     Append(origin, dvs[i].name))

\* check_spatial_requirements(ds, max_resolution_km, min_crop_size,
\* require_constant_domain) through its wrapper; `order` is the order in
\* which the set of variable names happens to be iterated
check_spatial_requirements(dvs, order, resolution, min_crop_size) ==
    LET first == IF ResolutionFinding(resolution) = <<>> THEN EmptyReport
                 ELSE AddedIn(EmptyReport, SPATIAL_SECTION_ID,
                              "Spatial resolution <=1km",
                              ResolutionFinding(resolution)[1],
                              <<Frag(resolution)>>)
        r == SpatialFrom([k \in 1..Len(order) |->
                             CHOOSE v \in Range(dvs) : v.name = order[k]],
                         min_crop_size, 1, first,
                         [k \in 1..Len(first.results) |-> Frag("resolution")])
    IN [r EXCEPT !.report =
           log_function_call(@, "mlcast_dataset_validator.checks.coords.spatial",
                             "check_spatial_requirements")]

(***************************************************************************)
(* ds.attrs: the global attributes the checks read; Absent is a missing    *)
(* key.  timeSteps tells what the time coordinate looks like.              *)
(***************************************************************************)
GlobalAttrs(license, consistent_timestep_start, last_valid_timestep) ==
    [license |-> license,
     consistent_timestep_start |-> consistent_timestep_start,
     last_valid_timestep |-> last_valid_timestep]

NoAttrs == GlobalAttrs(Absent, Absent, Absent)

\* `attr in ds.attrs`
InAttrs(attr, attrs) ==
    /\ attr \in DOMAIN attrs
    /\ attrs[attr].kind # "absent"

\* no "time" coordinate; equal steps; unequal steps; values that
\* pd.to_datetime cannot convert; equal steps that reach beyond now; equal
\* steps that reach beyond max_year; a single time value
TimeStepKinds ==
    {"absent", "regular", "variable", "unanalysable", "future", "far_future",
     "single"}

\* the number of unique differences between consecutive time values
\* (2 stands for any number above 1)
UniqueDiffs(steps) ==
    IF steps = "single" THEN 0
    ELSE IF steps = "variable" THEN 2
    ELSE 1

(***************************************************************************)
(* checks/coords/variable_timestep.py, and its earlier version under       *)
(* src/mlcast_validator.                                                   *)
(***************************************************************************)
\* the findings for a dataset with variable timesteps
VariableFindings(attrs, allow_variable_timestep) ==
    << <<"Variable timestep handling",
         IF allow_variable_timestep THEN "PASS" ELSE "FAIL">>,
       <<"Consistent timestep start metadata",
         IF InAttrs("consistent_timestep_start", attrs) THEN "PASS" ELSE "WARNING">> >>

\* a report with these <<requirement, status>> findings, stamped
TimestepReport(fs, module) ==
    LET r1 == IF fs = <<>> THEN EmptyReport
              ELSE AddedIn(EmptyReport, "3.5", fs[1][1], fs[1][2], <<>>)
        r2 == IF Len(fs) < 2 THEN r1
              ELSE AddedIn(r1, "3.5", fs[2][1], fs[2][2], <<>>)
    IN Returned(log_function_call(r2, module, "check_variable_timestep"),
                [k \in 1..Len(fs) |-> Frag("time")])

\* check_variable_timestep(ds, allow_variable_timestep=...) on a dataset
\* that was not analysed before: has_variable is unique_diff_count > 1, and
\* fewer than two time values give (False, 0)
check_variable_timestep(steps, attrs, allow_variable_timestep) ==
    TimestepReport(
        IF steps = "absent" THEN << <<"Time coordinate presence", "FAIL">> >>
        ELSE IF steps = "unanalysable"
        THEN << <<"Variable timestep analysis", "FAIL">> >>
        ELSE IF ~(steps # "single" /\ UniqueDiffs(steps) > 1)
        THEN << <<"Timestep consistency", "PASS">> >>
        ELSE VariableFindings(attrs, allow_variable_timestep),
        "mlcast_dataset_validator.checks.coords.variable_timestep")

\* the earlier check_variable_timestep: consistent iff
\* len(unique_diffs) == 1
check_variable_timestep_legacy(steps, attrs, allow_variable_timestep) ==
    TimestepReport(
        IF steps = "absent" THEN << <<"Time coordinate presence", "FAIL">> >>
        ELSE IF steps = "unanalysable"
        THEN << <<"Variable timestep analysis", "FAIL">> >>
        ELSE IF UniqueDiffs(steps) = 1
        THEN << <<"Timestep consistency", "PASS">> >>
        ELSE VariableFindings(attrs, allow_variable_timestep),
        "mlcast_validator.checks.coords.variable_timestep")

(***************************************************************************)
(* checks/coords/future_extension.py                                       *)
(***************************************************************************)
\* check_future_timestep(ds, max_year=...) through its wrapper: the
\* <<requirement, status>> pairs it adds
check_future_timestep(steps) ==
    LET fs == IF steps = "absent"
              THEN << <<"Time coordinate presence", "FAIL">> >>
              ELSE IF steps = "unanalysable"
              THEN << <<"Future timestep analysis", "FAIL">> >>
              ELSE IF steps = "future"
              THEN << <<"Future timesteps detected", "PASS">> >>
              ELSE IF steps = "far_future"
              THEN << <<"Future timesteps detected", "PASS">>,
                      <<"Future timestep limit", "FAIL">> >>
              ELSE <<>>
        Add(rep, f) == AddedIn(rep, "3.2", f[1], f[2], <<Frag(steps)>>)
        r == IF fs = <<>> THEN EmptyReport
             ELSE IF Len(fs) = 1 THEN Add(EmptyReport, fs[1])
             ELSE Add(Add(EmptyReport, fs[1]), fs[2])
    IN Returned(log_function_call(r,
                    "mlcast_dataset_validator.checks.coords.future_extension",
                    "check_future_timestep"),
                [k \in 1..Len(fs) |-> Frag("time")])

(***************************************************************************)
(* checks/global_attributes/licensing.py                                   *)
(***************************************************************************)
LICENSE_SECTION_ID == "5.2"

LICENSE_MODULE == "mlcast_dataset_validator.checks.global_attributes.licensing"

\* The SPDX identifiers LICENSING knows, case-folded: "CC-BY-4.0",
\* "CC-BY-SA-4.0", "CC-BY-NC-4.0", "OGL-UK-3.0", "MIT".  "CC-BY", "CC-BY-SA"
\* and "OGL" are not SPDX identifiers.
KnownSpdx == {"cc-by-4.0", "cc-by-sa-4.0", "cc-by-nc-4.0", "ogl-uk-3.0", "mit"}

\* LICENSING.parse(value, validate=True) raises ExpressionError
ParseFails(value) == value.text \notin KnownSpdx

\* expression.render(): the identifier in its canonical (upper-case) form
Render(value) == Up(value.text)

\* _normalize_spdx(values): (normalized_values, errors), errors in the
\* order of the values
_normalize_spdx(values) ==
    [normalized |-> {Render(values[i]) : i \in {j \in 1..Len(values) :
                                                   ~ParseFails(values[j])}},
     errors |-> SelectSeq(values, ParseFails)]

\* `token in normalized_license.upper()` for an upper-cased token
TokenIn(token, license) ==
    \/ token = Up("nc") /\ license.text \in {"cc-by-nc-4.0"}
    \/ token = Up("sa") /\ license.text \in {"cc-by-sa-4.0"}
    \/ token = Up("mit") /\ license.text \in {"mit"}

\* A mutation of the check: a missing license is only a warning.
MissingLicenseWarning == "WARNING"

\* the status of the finding for a missing `license` attribute
MissingLicenseStatus == "FAIL"

\* the WARNINGs for the recommended entries that failed to parse, added to
\* rep from the i-th error on
RECURSIVE RecommendedErrors(_, _, _)
RecommendedErrors(rep, errors, i) ==
    IF i > Len(errors) THEN rep
    ELSE RecommendedErrors(
             AddedIn(rep, LICENSE_SECTION_ID, "License compliance", "WARNING",
                     <<Frag("Recommended license"), Quoted(errors[i]),
                       Frag("is not valid SPDX")>>),
             errors, i + 1)

\* check_license(ds, require_spdx, recommended, warn_on_restricted)
\* through its wrapper
check_license(attrs, require_spdx, recommended, warn_on_restricted) ==
    IF ~InAttrs("license", attrs)
    THEN Returned(
             log_function_call(
                 AddedIn(EmptyReport, LICENSE_SECTION_ID, "License metadata",
                         MissingLicenseStatus,
                         <<Frag("Missing required 'license' global attribute")>>),
                 LICENSE_MODULE, "check_license"),
             <<>>)
    ELSE IF attrs.license.kind # "str" THEN Raise("AttributeError")
    ELSE
    LET license_id == strip(attrs.license)
        own == _normalize_spdx(<<license_id>>)
    IN
    IF own.errors # <<>>
    THEN Returned(
             log_function_call(
                 AddedIn(EmptyReport, LICENSE_SECTION_ID, "License compliance",
                         IF require_spdx THEN "FAIL" ELSE "WARNING",
                         <<Frag("License"), Quoted(license_id),
                           Frag("is not a valid SPDX expression")>>),
                 LICENSE_MODULE, "check_license"),
             <<>>)
    ELSE
    LET normalized_license == CHOOSE l \in own.normalized : TRUE
        rec == _normalize_spdx(recommended)
        restricted_tokens == {upper(t) : t \in Range(warn_on_restricted)}
        r1 == RecommendedErrors(EmptyReport, rec.errors, 1)
        is_recommended == normalized_license \in rec.normalized
        is_restricted ==
            \E token \in restricted_tokens : TokenIn(token, upper(normalized_license))
        r2 == IF is_recommended
              THEN AddedIn(r1, LICENSE_SECTION_ID, "License compliance", "PASS",
                       <<Frag("License"), Quoted(normalized_license),
                         Frag("is recommended and accepted")>>)
              ELSE IF is_restricted
              THEN AddedIn(r1, LICENSE_SECTION_ID, "License compliance", "WARNING",
                       <<Frag("License"), Quoted(normalized_license),
                         Frag("has restrictions (NC/ND)")>>)
              ELSE AddedIn(r1, LICENSE_SECTION_ID, "License compliance", "WARNING",
                       <<Frag("License"), Quoted(normalized_license),
                         Frag("requires case-by-case review")>>)
    IN Returned(log_function_call(r2, LICENSE_MODULE, "check_license"), <<>>)

(***************************************************************************)
(* checks/global_attributes/conditional.py                                 *)
(***************************************************************************)
CONDITIONAL_SECTION_ID == "5.1"

CONDITIONAL_MODULE == "mlcast_validator.checks.global_attributes.conditional"

\* the keys of CONDITION_FUNCTIONS
CONDITION_FUNCTIONS == {"consistent_timestep_start", "last_valid_timestep"}

\* _requires_variable_timestep_metadata(ds): "True", "False", or "raise"
\* when analyze_dataset_timesteps cannot convert the time values
_requires_variable_timestep_metadata(steps) ==
    IF steps = "absent" THEN "False"
    ELSE IF steps = "unanalysable" THEN "raise"
    ELSE IF steps = "variable" THEN "True"
    ELSE "False"

\* _requires_future_timestep_metadata(ds): logs a warning and returns None
_requires_future_timestep_metadata(steps) == "None"

\* condition_fn(ds) for a registered attribute
ConditionResult(attr, steps) ==
    IF attr = "consistent_timestep_start"
    THEN _requires_variable_timestep_metadata(steps)
    ELSE _requires_future_timestep_metadata(steps)

\* f"Conditional global attribute '{attr}'"
ConditionalTitle(attr) == "Conditional global attribute '" \o attr \o "'"

\* `condition_fn is None`
Unregistered(attr) == attr \notin CONDITION_FUNCTIONS

\* the loop of check_conditional_global_attributes from the i-th attribute on
RECURSIVE ConditionalFrom(_, _, _, _, _, _)
ConditionalFrom(attrs, steps, conditional_attrs, i, rep, origin) ==
    IF i > Len(conditional_attrs) THEN Returned(rep, origin)
    ELSE LET attr == conditional_attrs[i] IN
         IF Unregistered(attr) THEN Raise("NotImplementedError")
         ELSE LET is_required == ConditionResult(attr, steps) IN
              IF is_required = "raise" THEN Raise("ValueError")
              ELSE IF is_required = "True"
              THEN ConditionalFrom(attrs, steps, conditional_attrs, i + 1,
                       IF InAttrs(attr, attrs)
                       THEN AddedIn(rep, CONDITIONAL_SECTION_ID,
                                ConditionalTitle(attr), "PASS",
                                <<Frag("Global attribute"), Quoted(Lit(attr)),
                                  Frag("is present")>>)
                       ELSE AddedIn(rep, CONDITIONAL_SECTION_ID,
                                ConditionalTitle(attr), "FAIL",
                                <<Frag("Global attribute"), Quoted(Lit(attr)),
                                  Frag("is required but not present")>>),
                       Append(origin, Lit(attr)))
              ELSE ConditionalFrom(attrs, steps, conditional_attrs, i + 1,
                                   rep, origin)

\* check_conditional_global_attributes(ds, conditional_attrs=...) through
\* its wrapper
check_conditional_global_attributes(attrs, steps, conditional_attrs) ==
    LET r == ConditionalFrom(attrs, steps, conditional_attrs, 1,
                             EmptyReport, <<>>)
    IN [r EXCEPT !.report =
           log_function_call(@, CONDITIONAL_MODULE,
                             "check_conditional_global_attributes")]

(***************************************************************************)
(* checks/global_attributes/attributes.py                                  *)
(***************************************************************************)
ATTRIBUTES_MODULE == "mlcast_validator.checks.global_attributes.attributes"

\* f"Required global attribute '{attr}'"
RequiredTitle(attr) == "Required global attribute '" \o attr \o "'"

\* the two loops of check_global_attributes, from the i-th attribute on
RECURSIVE RequiredFrom(_, _, _, _, _)
RequiredFrom(attrs, required_attrs, i, rep, origin) ==
    IF i > Len(required_attrs) THEN Returned(rep, origin)
    ELSE LET attr == required_attrs[i] IN
         RequiredFrom(attrs, required_attrs, i + 1,
             IF InAttrs(attr, attrs)
             THEN AddedIn(rep, CONDITIONAL_SECTION_ID, RequiredTitle(attr), "PASS",
                      <<Frag("Global attribute"), Quoted(Lit(attr)),
                        Frag("is present")>>)
             ELSE AddedIn(rep, CONDITIONAL_SECTION_ID, RequiredTitle(attr), "FAIL",
                      <<Frag("Global attribute"), Quoted(Lit(attr)),
                        Frag("is missing")>>),
             Append(origin, Lit(attr)))

RECURSIVE OptionalFrom(_, _, _, _, _)
OptionalFrom(attrs, conditional_attrs, i, rep, origin) ==
    IF i > Len(conditional_attrs) THEN Returned(rep, origin)
    ELSE LET attr == conditional_attrs[i] IN
         OptionalFrom(attrs, conditional_attrs, i + 1,
             IF InAttrs(attr, attrs)
             THEN AddedIn(rep, CONDITIONAL_SECTION_ID, ConditionalTitle(attr), "PASS",
                      <<Frag("Global attribute"), Quoted(Lit(attr)),
                        Frag("is present")>>)
             ELSE AddedIn(rep, CONDITIONAL_SECTION_ID, ConditionalTitle(attr), "WARNING",
                      <<Frag("Global attribute"), Quoted(Lit(attr)),
                        Frag("is not present (optional)")>>),
             Append(origin, Lit(attr)))

\* check_global_attributes(ds, required_attrs=..., conditional_attrs=...)
\* through its wrapper
check_global_attributes(attrs, required_attrs, conditional_attrs) ==
    LET r1 == RequiredFrom(attrs, required_attrs, 1, EmptyReport, <<>>)
        r2 == OptionalFrom(attrs, conditional_attrs, 1, r1.report, r1.origin)
    IN [r2 EXCEPT !.report =
           log_function_call(@, ATTRIBUTES_MODULE, "check_global_attributes")]

(***************************************************************************)
(* checks/global_attributes/mlcast_metadata.py: the GitHub lookups.  A     *)
(* response is the HTTP status of requests.get, or the exception it        *)
(* raises ("timeout" and "connection_error" are RequestExceptions).        *)
(***************************************************************************)
METADATA_SECTION_ID == "5.4"

METADATA_MODULE == "mlcast_dataset_validator.checks.global_attributes.mlcast_metadata"

Responses == {"200", "404", "500", "timeout", "connection_error"}

\* what one requests.get amounts to for the caller
Answer(response) ==
    IF response \in {"timeout", "connection_error"} THEN "RequestException"
    ELSE IF response = "404" THEN "not_found"
    ELSE IF response = "200" THEN "ok"
    ELSE "RuntimeError"

\* github_repo_exists(org, repo): "True", "False" or the exception raised
github_repo_exists(response) ==
    IF Answer(response) = "not_found" THEN "False"
    ELSE IF Answer(response) = "ok" THEN "True"
    ELSE Answer(response)

\* github_ref_exists(org, repo, ref) from the i-th of the three paths on:
\* [result, asked]; result is "path", "None" or the exception raised, and
\* asked is the number of requests made
RECURSIVE github_ref_exists(_, _)
github_ref_exists(responses, i) ==
    IF i > Len(responses) THEN [result |-> "None", asked |-> Len(responses)]
    ELSE IF Answer(responses[i]) = "not_found"
    THEN github_ref_exists(responses, i + 1)
    ELSE IF Answer(responses[i]) = "ok" THEN [result |-> "path", asked |-> i]
    ELSE [result |-> Answer(responses[i]), asked |-> i]

\* A mutation of the lookups' handlers: only RequestException is caught.
CaughtRequestOnly(exception) == exception = "RequestException"

\* the except clauses around a lookup: RequestException and RuntimeError
Caught(exception) == exception \in {"RequestException", "RuntimeError"}

\* the findings for an attribute that is missing, parses, or does not parse
AttributeFinding(rep, attr, state) ==
    AddedIn(rep, METADATA_SECTION_ID, "Global attribute '" \o attr \o "'",
            IF state = "valid" THEN "PASS" ELSE "FAIL",
            <<Frag(state)>>)

\* check_mlcast_metadata(ds) through its wrapper.  m tells, for each of the
\* five attributes, whether it is "missing", "valid" or "invalid", and gives
\* the responses GitHub would send: m.repo and m.refs.
\* requests lists the lookups made, in order.
check_mlcast_metadata(m) ==
    LET r1 == AttributeFinding(EmptyReport, "mlcast_created_on", m.created_on)
        r2 == AttributeFinding(r1, "mlcast_created_by", m.created_by)
        r3 == AttributeFinding(r2, "mlcast_created_with", m.created_with)
        repo_exists == github_repo_exists(m.repo)
        ref == github_ref_exists(m.refs, 1)
        lookedUp == m.created_with = "valid"
        r4 == IF ~lookedUp THEN r3
              ELSE IF repo_exists = "True"
              THEN AddedIn(r3, METADATA_SECTION_ID,
                       "Creator software GitHub repository", "PASS",
                       <<Frag("Repository exists on GitHub")>>)
              ELSE IF repo_exists = "False"
              THEN AddedIn(r3, METADATA_SECTION_ID,
                       "Creator software GitHub repository", "WARNING",
                       <<Frag("Repository not found on GitHub")>>)
              ELSE IF repo_exists = "RequestException"
              THEN AddedIn(r3, METADATA_SECTION_ID,
                       "Creator software GitHub repository", "WARNING",
                       <<Frag("Could not verify repository due to network error")>>)
              ELSE AddedIn(r3, METADATA_SECTION_ID,
                       "Creator software GitHub repository", "WARNING",
                       <<Frag("GitHub repository check returned unexpected response")>>)
        refLookedUp == lookedUp /\ repo_exists = "True"
        r5 == IF ~refLookedUp THEN r4
              ELSE IF ref.result = "path"
              THEN AddedIn(r4, METADATA_SECTION_ID,
                       "Creator software GitHub revision", "PASS",
                       <<Frag("Revision found at"), Num(ref.asked)>>)
              ELSE IF ref.result = "None"
              THEN AddedIn(r4, METADATA_SECTION_ID,
                       "Creator software GitHub revision", "FAIL",
                       <<Frag("Revision not found as tag, branch, or commit")>>)
              ELSE IF ref.result = "RequestException"
              THEN AddedIn(r4, METADATA_SECTION_ID,
                       "Creator software GitHub revision", "WARNING",
                       <<Frag("Could not verify revision due to network error")>>)
              ELSE AddedIn(r4, METADATA_SECTION_ID,
                       "Creator software GitHub revision", "WARNING",
                       <<Frag("GitHub revision check returned unexpected response")>>)
        r6 == AttributeFinding(r5, "mlcast_dataset_version", m.dataset_version)
        r7 == AttributeFinding(r6, "mlcast_source_org_id", m.source_org_id)
        requests == (IF lookedUp THEN <<"repo">> ELSE <<>>)
                    \o (IF refLookedUp THEN [k \in 1..ref.asked |-> "ref"]
                        ELSE <<>>)
        escaped ==
            IF lookedUp /\ repo_exists \notin {"True", "False"}
                        /\ ~Caught(repo_exists)
            THEN repo_exists
            ELSE IF refLookedUp /\ ref.result \notin {"path", "None"}
                                /\ ~Caught(ref.result)
            THEN ref.result
            ELSE ""
    IN IF escaped # ""
       THEN [raised |-> escaped, report |-> EmptyReport, requests |-> requests]
       ELSE [raised |-> "",
             report |-> log_function_call(r7, METADATA_MODULE,
                                          "check_mlcast_metadata"),
             requests |-> requests]

(***************************************************************************)
(* checks/tool_compatibility/gdal.py and cartopy.py.  What the dataset and *)
(* the libraries answer is given by a record of facts.                     *)
(***************************************************************************)
GDAL_SECTION_ID == "6.1"

CARTOPY_SECTION_ID == "6.2"

GDAL_MODULE == "mlcast_dataset_validator.checks.tool_compatibility.gdal"

CARTOPY_MODULE == "mlcast_dataset_validator.checks.tool_compatibility.cartopy"

\* the part of both checks up to the CRS text: <<>> when it is passed, else
\* the <<requirement, status>> the check returns with
CrsPrelude(g, wkt_requirement) ==
    IF ~g.target_found THEN <<"Data variable selection", "FAIL">>
    ELSE IF ~g.grid_mapping_valid THEN <<"CRS metadata", "FAIL">>
    ELSE IF ~g.wkt_present THEN <<wkt_requirement, "FAIL">>
    ELSE <<>>

\* report.add for each <<requirement, status>> of fs from the i-th on
RECURSIVE AddAll(_, _, _, _)
AddAll(rep, section, fs, i) ==
    IF i > Len(fs) THEN rep
    ELSE AddAll(AddedIn(rep, section, fs[i][1], fs[i][2], <<>>), section, fs, i + 1)

\* check_gdal_compatibility(ds) through its wrapper
check_gdal_compatibility(g) ==
    LET fs ==
        IF ~g.available THEN << <<"GDAL availability", "WARNING">> >>
        ELSE IF CrsPrelude(g, "GDAL WKT parsing") # <<>>
        THEN <<CrsPrelude(g, "GDAL WKT parsing")>>
        ELSE IF ~g.wkt_parses THEN << <<"GDAL WKT parsing", "FAIL">> >>
        ELSE << <<"GDAL WKT parsing", "PASS">> >>
             \o (IF ~g.rioxarray_available
                 THEN << <<"GDAL roundtrip", "WARNING">> >>
                 ELSE IF g.roundtrip = "ok"
                 THEN << <<"GDAL roundtrip", "PASS">> >>
                 ELSE << <<"GDAL roundtrip", "FAIL">> >>)
    IN [raised |-> "",
        report |-> log_function_call(
                       AddAll(EmptyReport, GDAL_SECTION_ID, fs, 1),
                       GDAL_MODULE, "check_gdal_compatibility"),
        requests |-> <<>>]

\* check_cartopy_compatibility(ds) through its wrapper
check_cartopy_compatibility(g) ==
    LET fs ==
        IF ~g.available THEN << <<"Cartopy availability", "WARNING">> >>
        ELSE IF CrsPrelude(g, "Cartopy CRS creation") # <<>>
        THEN <<CrsPrelude(g, "Cartopy CRS creation")>>
        ELSE IF ~g.wkt_parses THEN << <<"Cartopy CRS creation", "FAIL">> >>
        ELSE << <<"Cartopy CRS creation", "PASS">>,
                <<"Cartopy BBOX check", IF g.has_bbox THEN "PASS" ELSE "WARNING">>,
                <<"Cartopy coordinate transform",
                  IF ~g.xy_coords THEN "WARNING"
                  ELSE IF g.transform = "ok" THEN "PASS"
                  ELSE IF g.transform = "nan" THEN "WARNING"
                  ELSE "FAIL">> >>
    IN [raised |-> "",
        report |-> log_function_call(
                       AddAll(EmptyReport, CARTOPY_SECTION_ID, fs, 1),
                       CARTOPY_MODULE, "check_cartopy_compatibility"),
        requests |-> <<>>]

(***************************************************************************)
(* specs/source_data/radar_precipitation.py and specs/cli.py.              *)
(***************************************************************************)
\* The checks validate_dataset calls, in the order it calls them.
PIPELINE ==
    <<"check_coordinate_names", "check_future_timestep",
      "check_spatial_requirements", "check_temporal_requirements",
      "check_variable_timestep", "check_chunking_strategy",
      "check_compression", "check_data_structure", "check_names_and_attrs",
      "check_georeferencing", "check_conditional_global_attributes",
      "check_license", "check_zarr_format", "check_gdal_compatibility",
      "check_cartopy_compatibility">>

\* Checks with a path on which an exception leaves the check:
\* value.strip() on a non-string axis (names.py:115), chunks[0] on a
\* variable without dimensions (chunking.py:42), .strip() on a non-string
\* standard_name or units (naming.py:93-94) and a time coordinate that
\* analyze_dataset_timesteps cannot convert (conditional.py:19).
RaisingChecks ==
    {"check_coordinate_names", "check_chunking_strategy",
     "check_names_and_attrs", "check_conditional_global_attributes"}

NotExited == -1

\* parser.error() ends the process with status 2 (argparse).
UsageStatus == 2

\* the command line before it is parsed
NoArgs == [list |-> FALSE, data_stage |-> "", product |-> "", dataset_path |-> ""]

IdleCli ==
    /\ pc = "start"
    /\ idx = 1
    /\ report = EmptyReport
    /\ returned = <<>>
    /\ exitStatus = NotExited
    /\ effects = {}
    /\ dataset = NoAttrs
    /\ args = NoArgs

NoCheckOp ==
    [op |-> "none", config |-> <<>>, raised |-> "", report |-> EmptyReport,
     origin |-> <<>>]

IdleChecks ==
    /\ dataVars = <<>>
    /\ globalAttrs = NoAttrs
    /\ timeSteps = "absent"
    /\ checkOp = NoCheckOp

NoOracleOp ==
    [op |-> "none", facts |-> <<>>, raised |-> "", report |-> EmptyReport,
     requests |-> <<>>]

IdleOracles == oracleOp = NoOracleOp

MaxIds == 2      \* the number of addresses id() can return
MaxDepth == 2    \* deepest nesting of skip_all_checks

Ids == 1..MaxIds

NoAnalysis == [op |-> "none", id |-> 0, time |-> "free", hit |-> FALSE,
               raised |-> "", value |-> <<>>]

IdleCache ==
    /\ heap = [i \in Ids |-> "free"]
    /\ _TIMESTEP_CACHE = <<>>
    /\ analysis = NoAnalysis

NoCheckCall == [op |-> "none", key |-> "", active |-> FALSE, early |-> FALSE,
                outcome |-> ""]

MaxHeapLen == 2  \* longest list of results in SpecAlias

ReportNames == {"A", "B", "S"}

\* a report object that holds list number n
ReportObject(ok, n) == [ok |-> ok, results |-> n]

NoHeapOp == [op |-> "none", target |-> "",
             before |-> [n \in ReportNames |->
                            [ok |-> TRUE, results |-> <<>>]]]

IdleAlias ==
    /\ lists = [n \in 1..3 |-> <<>>]
    /\ objects = [n \in ReportNames |->
                  ReportObject(TRUE, CASE n = "A" -> 1 [] n = "B" -> 2
                                       [] OTHER -> 0)]
    /\ heapOp = NoHeapOp

IdleRegistry ==
    /\ CHECK_REGISTRY = <<>>
    /\ decorated = {}
    /\ outside = {}
    /\ patches = <<>>
    /\ checkCall = NoCheckCall

(***************************************************************************)
(* SpecReport: reports grown from the empty report by add() and merges.    *)
(***************************************************************************)
IdleReport ==
    /\ A = EmptyReport
    /\ B = EmptyReport
    /\ sum = <<>>
    /\ pre = EmptyReport
    /\ raised = FALSE
    /\ lastOp = NoOp

InitReport ==
    /\ IdleReport
    /\ IdleCoords
    /\ IdleCli
    /\ IdleChecks
    /\ IdleOracles
    /\ IdleCache
    /\ IdleRegistry
    /\ IdleAlias

\* A.add(section, requirement, status, detail)
AddA ==
    \E section \in SectionArgs, requirement \in RequirementArgs,
       status \in StatusArgs, detail \in DetailArgs :
        LET r == ReportAdd(A, section, requirement, status, detail) IN
        /\ Len(A.results) < MaxResults
        /\ A' = r.self
        /\ raised' = r.raised
        /\ pre' = A
        /\ sum' = <<>>
        /\ lastOp' = [op |-> "add", target |-> "A", status |-> status]
        /\ UNCHANGED <<B, notReport>>

\* B.add(section, requirement, status, detail)
AddB ==
    \E section \in SectionArgs, requirement \in RequirementArgs,
       status \in StatusArgs, detail \in DetailArgs :
        LET r == ReportAdd(B, section, requirement, status, detail) IN
        /\ Len(B.results) < MaxResults
        /\ B' = r.self
        /\ raised' = r.raised
        /\ pre' = A
        /\ sum' = <<>>
        /\ lastOp' = [op |-> "add", target |-> "B", status |-> status]
        /\ UNCHANGED <<A, notReport>>

\* A += B
IAddAB ==
    /\ Len(A.results) + Len(B.results) <= MaxResults
    /\ A' = ReportIAdd(A, B)
    /\ raised' = FALSE
    /\ pre' = A
    /\ sum' = <<>>
    /\ lastOp' = [op |-> "iadd", target |-> "A", status |-> "none"]
    /\ UNCHANGED <<B, notReport>>

\* A + B, the returned report kept in sum
PlusAB ==
    /\ Len(A.results) + Len(B.results) <= MaxResults
    /\ sum' = <<ReportPlus(A, B)>>
    /\ raised' = FALSE
    /\ pre' = A
    /\ lastOp' = [op |-> "plus", target |-> "sum", status |-> "none"]
    /\ UNCHANGED <<A, B, notReport>>

NextReport ==
    \/ AddA
    \/ AddB
    \/ IAddAB
    \/ PlusAB

SpecReport == InitReport /\ [][NextReport]_vars

(***************************************************************************)
(* SpecMerge: the two merge forms on arbitrary values of the dataclass     *)
(* (ok is a constructor argument and a public field, so either value).     *)
(***************************************************************************)
ResultValues ==
    {Result(section, requirement, status, detail) :
        section \in SectionArgs, requirement \in RequirementArgs,
        status \in valid_levels, detail \in DetailArgs}

ReportValues ==
    {[ValidationReport(ok) EXCEPT !.results = rs] :
        ok \in BOOLEAN, rs \in SeqsUpTo(ResultValues, MaxOperandLen)}

InitMerge ==
    /\ A \in ReportValues
    /\ B \in ReportValues
    /\ sum = <<>>
    /\ pre = A
    /\ raised = FALSE
    /\ lastOp = NoOp
    /\ IdleCoords
    /\ IdleCli
    /\ IdleChecks
    /\ IdleOracles
    /\ IdleCache
    /\ IdleRegistry
    /\ IdleAlias

\* M = A + B on the operands as constructed
MergePlus ==
    /\ lastOp.op = "none"
    /\ sum' = <<ReportPlus(A, B)>>
    /\ raised' = FALSE
    /\ pre' = A
    /\ lastOp' = [op |-> "plus", target |-> "sum", status |-> "none"]
    /\ UNCHANGED <<A, B, notReport>>

\* A += B on the same operands (before or after A + B was formed)
MergeIAdd ==
    /\ lastOp.op \in {"none", "plus"}
    /\ A' = ReportIAdd(A, B)
    /\ raised' = FALSE
    /\ pre' = A
    /\ lastOp' = [op |-> "iadd", target |-> "A", status |-> "none"]
    /\ UNCHANGED <<B, sum, notReport>>

NextMerge ==
    \/ MergePlus
    \/ MergeIAdd

SpecMerge == InitMerge /\ [][NextMerge]_vars

(***************************************************************************)
(* SpecCoords: a dataset's coordinates are put together from a pool of     *)
(* names and attribute sets; _find_coordinates and check_coordinate_names  *)
(* are called on it.                                                       *)
(***************************************************************************)
Attrs(standard_name, axis, units) ==
    [standard_name |-> standard_name, axis |-> axis, units |-> units]

\* "time", "Latitude", "lon", "x"
NameInputs == {Lit("time"), Frag("latitude"), Lit("lon"), Lit("x")}

AttrInputs ==
    {Attrs(None, None, None),
     Attrs(Lit("latitude"), None, None),
     Attrs(None, Lit("y"), Frag("degrees_north")),       \* "y", "degrees_North"
     Attrs(None, Up("y"), Str("km", "lower", TRUE)),      \* "Y", " km "
     Attrs(None, IntOne, None),                           \* axis = 1
     Attrs(Lit("longitude"), IntOne, None)}

CoordInputs == {[name |-> n, attrs |-> a] : n \in NameInputs, a \in AttrInputs}

Configs == [time : BOOLEAN, projected : BOOLEAN, latlon : BOOLEAN]

InitCoords ==
    /\ IdleReport
    /\ IdleCoords
    /\ IdleCli
    /\ IdleChecks
    /\ IdleOracles
    /\ IdleCache
    /\ IdleRegistry
    /\ IdleAlias

\* The dataset gets one more coordinate (names are the keys of ds.coords);
\* the dataset is complete before it is validated.
AddCoord ==
    \E c \in CoordInputs :
        /\ coordOp.op = "none"
        /\ Len(ds) < MaxCoords
        /\ \A i \in 1..Len(ds) : ds[i].name # c.name
        /\ ds' = Append(ds, c)
        /\ coordOp' = NoCoordOp
        /\ UNCHANGED notCoords

\* _find_coordinates(ds, _COORD_RULES[cat])
Find ==
    \E cat \in Categories :
        LET r == _find_coordinates(ds, _COORD_RULES[cat]) IN
        /\ coordOp.op = "none"
        /\ coordOp' = [NoCoordOp EXCEPT !.op = "find", !.cat = cat,
                          !.raised = r.raised, !.matches = r.matches]
        /\ UNCHANGED <<ds, notCoords>>

\* check_coordinate_names(ds, ...)
CheckNames ==
    \E cfg \in Configs :
        LET r == check_coordinate_names(ds, cfg) IN
        /\ coordOp.op = "none"
        /\ coordOp' = [NoCoordOp EXCEPT !.op = "check", !.cfg = cfg,
                          !.raised = r.raised, !.report = r.report]
        /\ UNCHANGED <<ds, notCoords>>

NextCoords ==
    \/ AddCoord
    \/ Find
    \/ CheckNames

SpecCoords == InitCoords /\ [][NextCoords]_vars

(***************************************************************************)
(* SpecCli: main() parses the arguments, loads the validator module, runs  *)
(* validate_dataset (open the dataset, then every check in turn, each      *)
(* report merged with +=), prints the report and returns the exit status.  *)
(* What a check finds depends on the dataset: any report of valid results  *)
(* may come back, stamped by the log_function_call wrapper.                *)
(***************************************************************************)
InitCli ==
    /\ IdleReport
    /\ IdleCoords
    /\ IdleCli
    /\ IdleChecks
    /\ IdleOracles
    /\ IdleCache
    /\ IdleRegistry
    /\ IdleAlias

\* the reports a check called `function` may return with at most n results
CheckReports(function, n) ==
    {log_function_call([EmptyReport EXCEPT !.results = rs], "checks", function) :
        rs \in SeqsUpTo(ResultValues, IF n < 0 THEN 0 ELSE n)}

\* _discover_catalog(): the data stages and their products
Catalog == [source_data |-> {"radar_precipitation"}]

\* command lines: "" is a positional argument that was not given
ArgInputs ==
    [list : BOOLEAN,
     data_stage : {"", "source_data", "nowcast"},
     product : {"", "radar_precipitation", "satellite"},
     dataset_path : {"", "ds.zarr"}]

\* A mutation of the argument checks: only missing arguments are refused.
UsageProblemMissingOnly(a) ==
    a.data_stage = "" \/ a.product = "" \/ a.dataset_path = ""

\* main(): one of the three conditions that end in parser.error()
UsageProblem(a) ==
    IF ~(a.data_stage # "" /\ a.product # "" /\ a.dataset_path # "") THEN TRUE
    ELSE IF a.data_stage \notin DOMAIN Catalog THEN TRUE
    ELSE a.product \notin Catalog[a.data_stage]

\* the datasets validate_dataset may open: the license attribute varies
CliDatasets ==
    {GlobalAttrs(l, Absent, Absent) :
        l \in {Absent, Up("cc-by-4.0"), Lit("public domain"), IntOne}}

\* the arguments validate_dataset passes to check_license
PipelineRecommended == <<Up("cc-by"), Up("cc-by-sa"), Up("ogl")>>

PipelineRestricted == <<Up("nc"), Up("nd")>>

\* check_license(ds, require_spdx=True, recommended=[...],
\* warn_on_restricted=[...]) as validate_dataset calls it
PipelineLicense(attrs) ==
    check_license(attrs, TRUE, PipelineRecommended, PipelineRestricted)

\* main(): --list prints the catalog and returns 0
ListCatalog ==
    \E a \in ArgInputs :
        /\ pc = "start"
        /\ a.list
        /\ args' = a
        /\ pc' = "listed"
        /\ effects' = effects \cup {"catalog_printed"}
        /\ exitStatus' = 0
        /\ UNCHANGED <<idx, report, returned, dataset, notCli>>

\* main(): a missing positional argument, an unknown data_stage or an
\* unknown product ends in parser.error()
UsageError ==
    \E a \in ArgInputs :
        /\ pc = "start"
        /\ ~a.list
        /\ UsageProblem(a)
        /\ args' = a
        /\ pc' = "usage_error"
        /\ exitStatus' = UsageStatus
        /\ UNCHANGED <<idx, report, returned, effects, dataset, notCli>>

\* main(): the module is loaded and validate_dataset is entered with
\* report = ValidationReport()
EnterValidate ==
    \E a \in ArgInputs :
        /\ pc = "start"
        /\ ~a.list
        /\ ~UsageProblem(a)
        /\ args' = a
        /\ pc' = "opening"
        /\ effects' = effects \cup {"module_loaded"}
        /\ report' = ValidationReport(TRUE)
        /\ UNCHANGED <<idx, returned, exitStatus, dataset, notCli>>

\* _load_validator_module: the import fails or the module has no
\* validate_dataset; SystemExit(message) ends the process with status 1
LoadFails ==
    \E a \in ArgInputs :
        /\ pc = "start"
        /\ ~a.list
        /\ ~UsageProblem(a)
        /\ args' = a
        /\ pc' = "load_error"
        /\ exitStatus' = 1
        /\ UNCHANGED <<idx, report, returned, effects, dataset, notCli>>

\* validate_dataset: xr.open_zarr returns the dataset
OpenDataset ==
    \E d \in CliDatasets :
        /\ pc = "opening"
        /\ pc' = "checking"
        /\ dataset' = d
        /\ effects' = effects \cup {"dataset_opened"}
        /\ UNCHANGED <<idx, report, returned, exitStatus, args, notCli>>

\* validate_dataset: xr.open_zarr raises; @logger.catch logs the exception
\* and main() returns None, which sys.exit() turns into status 0
OpenFails ==
    /\ pc = "opening"
    /\ pc' = "crashed"
    /\ effects' = effects \cup {"dataset_opened"}
    /\ exitStatus' = 0
    /\ UNCHANGED <<idx, report, returned, dataset, args, notCli>>

\* validate_dataset: report += check(ds, ...) for the next check
RunCheck ==
    /\ pc = "checking"
    /\ idx <= Len(PIPELINE)
    /\ PIPELINE[idx] # "check_license"
    /\ \E partial \in CheckReports(PIPELINE[idx],
                                   MaxFindings - Len(report.results)) :
           /\ report' = ReportIAdd(report, partial)
           /\ returned' = Append(returned, partial)
    /\ idx' = idx + 1
    /\ UNCHANGED <<pc, exitStatus, effects, dataset, args, notCli>>

\* validate_dataset: report += check_license(ds, ...)
RunLicense ==
    LET r == PipelineLicense(dataset) IN
    /\ pc = "checking"
    /\ idx <= Len(PIPELINE)
    /\ PIPELINE[idx] = "check_license"
    /\ r.raised = ""
    /\ report' = ReportIAdd(report, r.report)
    /\ returned' = Append(returned, r.report)
    /\ idx' = idx + 1
    /\ UNCHANGED <<pc, exitStatus, effects, dataset, args, notCli>>

\* validate_dataset: the next check raises; the exception leaves
\* validate_dataset and is caught by @logger.catch around main()
CheckRaises ==
    /\ pc = "checking"
    /\ idx <= Len(PIPELINE)
    /\ IF PIPELINE[idx] = "check_license"
       THEN PipelineLicense(dataset).raised # ""
       ELSE PIPELINE[idx] \in RaisingChecks
    /\ pc' = "crashed"
    /\ exitStatus' = 0
    /\ UNCHANGED <<idx, report, returned, effects, dataset, args, notCli>>

\* validate_dataset: the caller interrupts the run between two checks.
\* validate_dataset has no try block, so KeyboardInterrupt leaves it with
\* the local report; @logger.catch catches Exception only, and the
\* interpreter ends with the status of an unhandled KeyboardInterrupt
\* (130, or 1 on older interpreters).
Cancel ==
    /\ pc = "checking"
    /\ idx <= Len(PIPELINE)
    /\ pc' = "interrupted"
    /\ exitStatus' \in {1, 130}
    /\ UNCHANGED <<idx, report, returned, effects, dataset, args, notCli>>

\* validate_dataset returns; main() prints the report and returns
\* 1 if report.has_fails() else 0
PrintAndExit ==
    /\ pc = "checking"
    /\ idx = Len(PIPELINE) + 1
    /\ pc' = "done"
    /\ effects' = effects \cup {"report_printed"}
    /\ exitStatus' = IF has_fails(report) THEN 1 ELSE 0
    /\ UNCHANGED <<idx, report, returned, dataset, args, notCli>>

NextCli ==
    \/ ListCatalog
    \/ UsageError
    \/ EnterValidate
    \/ LoadFails
    \/ OpenDataset
    \/ OpenFails
    \/ RunCheck
    \/ RunLicense
    \/ CheckRaises
    \/ Cancel
    \/ PrintAndExit

SpecCli == InitCli /\ [][NextCli]_vars

(***************************************************************************)
(* SpecChecks: a dataset is put together from a pool of data variables, or *)
(* its global attributes and time coordinate are set, and one check is     *)
(* called on it.  Each check reads one part of the dataset only, so the    *)
(* dataset varies in one part at a time.                                   *)
(***************************************************************************)
\* "Rain rate"
LongName == Frag("rain rate")

\* data variables for the naming check: [name, attrs]
NamingInputs ==
    {<<Lit("rr"), DataAttrs(LongName, Lit("rainfall_flux"), Lit("mm/h"), Absent)>>,
     \* "RR", " Rainfall_Flux ", "kg m-2 h-1"
     <<Up("rr"), DataAttrs(LongName, Str("rainfall_flux", "mixed", TRUE),
                           Lit("kg m-2 h-1"), Absent)>>,
     <<Lit("rr"), DataAttrs(LongName, Lit("rainfall_flux"), Lit("in/h"), Absent)>>,
     \* units " mm/h "
     <<Lit("precip"), DataAttrs(LongName, Lit("rainfall_flux"),
                                Str("mm/h", "lower", TRUE), Absent)>>,
     <<Lit("rr"), DataAttrs(Absent, Lit("rainfall_flux"), Absent, Absent)>>,
     <<Lit("precip"), DataAttrs(LongName, Absent, Lit("mm/h"), Absent)>>,
     <<Up("rr"), DataAttrs(LongName, Lit("rainfall_flux"), Absent, Absent)>>,
     <<Lit("precip"), DataAttrs(LongName, Lit("air_temperature"), Up("k"), Absent)>>,
     <<Lit("rr"), DataAttrs(LongName, Lit("rainfall_flux"), IntOne, Absent)>>,
     <<Lit("precip"), DataAttrs(LongName, None, Lit("mm/h"), Absent)>>,
     \* "dBZ" and "dbz"
     <<Lit("dbz"), DataAttrs(LongName, Lit("equivalent_reflectivity_factor"),
                             Frag("dbz"), Absent)>>,
     <<Lit("dbz"), DataAttrs(LongName, Lit("equivalent_reflectivity_factor"),
                             Lit("dbz"), Absent)>>,
     \* a grid_mapping definition and a variable that refers to it
     <<Lit("crs"), DataAttrs(Absent, Absent, Absent, Absent)>>,
     <<Lit("tp"), DataAttrs(LongName, Lit("precipitation_amount"), Lit("mm"),
                            Lit("crs"))>>}

GoodAttrs == DataAttrs(LongName, Lit("rainfall_flux"), Lit("kg m-2 h-1"), Absent)

\* data variables for the chunking check: [name, data]
ChunkInputs ==
    {<<Lit("rr"), Chunked(<< <<1, 1, 1>>, <<2>> >>)>>,
     <<Lit("rr"), Chunked(<< <<1, 1, 2>> >>)>>,
     <<Lit("mmh"), Chunked(<< <<2, 2>>, <<1>> >>)>>,
     <<Lit("mmh"), Chunked(<< <<1, 1, 1, 1, 1, 1, 2>> >>)>>,
     <<Lit("rain_rate"), Chunked(<<>>)>>}

\* data variables for the compression check: [name, encoding]
EncodingInputs ==
    {<<Lit("rr"), Encoding("zstd", <<>>, <<>>)>>,
     <<Lit("rr"), Encoding("blosc", <<>>, <<>>)>>,
     <<Lit("mmh"), Encoding("", <<>>, <<"shuffle", "zlib">>)>>,
     <<Lit("mmh"), Encoding("", <<>>, <<"shuffle">>)>>,
     <<Lit("mmh"), Encoding("", <<>>, <<"zlib", "shuffle", "zstd">>)>>,
     <<Lit("rain_rate"), Encoding("", <<"zstd">>, <<>>)>>}

\* data variables for the spatial check: [name, dims]
DimInputs ==
    {<<Lit("rr"), << <<"time", 3>>, <<"y", 2>>, <<"x", 2>> >> >>,
     <<Lit("mmh"), << <<"y", 3>>, <<"x", 2>> >> >>,
     <<Lit("mmh"), << <<"t", 3>>, <<"y", 2>>, <<"x", 3>> >> >>,
     <<Lit("rain_rate"), << <<"time", 3>>, <<"x", 3>> >> >>}

\* min_crop_size as (height, width)
CropSizes == {<<2, 2>>, <<2, 3>>, <<3, 2>>}

\* the pools of data variables; the variables of one dataset come from one
\* pool, which varies what one of the checks looks at
DataVarPools ==
    {{DataArray(i[1], i[2], NotChunked, NoEncoding) : i \in NamingInputs},
     {DataArray(i[1], GoodAttrs, i[2], NoEncoding) : i \in ChunkInputs},
     {DataArray(i[1], GoodAttrs, NotChunked, i[2]) : i \in EncodingInputs},
     {WithDims(DataArray(i[1], GoodAttrs, NotChunked, NoEncoding), i[2]) :
         i \in DimInputs}}

DataVarInputs == UNION DataVarPools

\* allowed_standard_names: the pipeline's tuple, the same in upper case
\* with one name, and a tuple with a name that has no rule
PipelineStandardNames ==
    {Lit("rainfall_flux"), Lit("precipitation_flux"),
     Lit("equivalent_reflectivity_factor"), Lit("precipitation_amount"),
     Lit("rainfall_amount")}

StandardNameConfigs ==
    {PipelineStandardNames,
     {Up("rainfall_flux")},
     {Lit("rainfall_flux"), Lit("air_temperature")}}

TimeChunkSizes == {1, 2}

LicenseInputs ==
    {Absent, Up("cc-by-4.0"), Lit("cc-by-4.0"), Str("cc-by-4.0", "upper", TRUE),
     Up("cc-by-nc-4.0"), Up("mit"), Up("cc-by"), IntOne}

\* a global attribute that is there: an ISO 8601 timestamp
Timestamp == Up("2024-01-01t00:00:00z")

AttrInputs2 ==
    {GlobalAttrs(l, c, f) :
        l \in LicenseInputs, c \in {Absent, Timestamp}, f \in {Absent, Timestamp}}

RecommendedConfigs == {PipelineRecommended, <<Up("cc-by-4.0"), Up("cc-by")>>}

ConditionalConfigs ==
    {<<>>,
     <<"consistent_timestep_start", "last_valid_timestep">>,
     <<"last_valid_timestep", "consistent_timestep_start">>,
     <<"valid_time_range">>,
     <<"consistent_timestep_start", "valid_time_range">>}

InitChecks ==
    /\ IdleReport
    /\ IdleCoords
    /\ IdleCli
    /\ IdleChecks
    /\ IdleOracles
    /\ IdleCache
    /\ IdleRegistry
    /\ IdleAlias

\* The dataset gets one more data variable (names are the keys of
\* ds.data_vars).
AddVar ==
    \E v \in DataVarInputs :
        /\ checkOp.op = "none"
        /\ globalAttrs = NoAttrs /\ timeSteps = "absent"
        /\ Len(dataVars) < MaxVars
        /\ \A i \in 1..Len(dataVars) : dataVars[i].name # v.name
        /\ \E pool \in DataVarPools : Range(dataVars) \cup {v} \subseteq pool
        /\ dataVars' = Append(dataVars, v)
        /\ UNCHANGED <<globalAttrs, timeSteps, checkOp, notChecks>>

\* The dataset gets its global attributes and its time coordinate.
SetAttrs ==
    \E a \in AttrInputs2, t \in TimeStepKinds :
        /\ checkOp.op = "none"
        /\ dataVars = <<>>
        /\ globalAttrs = NoAttrs /\ timeSteps = "absent"
        /\ globalAttrs' = a
        /\ timeSteps' = t
        /\ UNCHANGED <<dataVars, checkOp, notChecks>>

\* the record of a call and of what it returned or raised
Called(op, config, r) ==
    [op |-> op, config |-> config, raised |-> r.raised, report |-> r.report,
     origin |-> r.origin]

CheckNaming ==
    \E names \in StandardNameConfigs :
        /\ checkOp.op = "none"
        /\ checkOp' = Called("check_names_and_attrs", names,
                             check_names_and_attrs(dataVars, names))
        /\ UNCHANGED <<dataVars, globalAttrs, timeSteps, notChecks>>

CheckChunking ==
    \E time_chunksize \in TimeChunkSizes :
        /\ checkOp.op = "none"
        /\ checkOp' = Called("check_chunking_strategy", time_chunksize,
                             check_chunking_strategy(dataVars, time_chunksize))
        /\ UNCHANGED <<dataVars, globalAttrs, timeSteps, notChecks>>

CheckCompression ==
    \E require_compression \in BOOLEAN, order \in Orders(CompressionVars(dataVars)) :
        /\ checkOp.op = "none"
        /\ checkOp' = Called("check_compression",
                             [require_compression |-> require_compression,
                              recommended_compression |-> Lit("zstd")],
                             check_compression(dataVars, order,
                                 require_compression, Lit("zstd")))
        /\ UNCHANGED <<dataVars, globalAttrs, timeSteps, notChecks>>

CheckSpatial ==
    \E min_crop_size \in CropSizes, resolution \in Resolutions,
       order \in Orders(CompressionVars(dataVars)) :
        /\ checkOp.op = "none"
        /\ checkOp' = Called("check_spatial_requirements",
                             [min_crop_size |-> min_crop_size,
                              resolution |-> resolution],
                             check_spatial_requirements(dataVars, order,
                                 resolution, min_crop_size))
        /\ UNCHANGED <<dataVars, globalAttrs, timeSteps, notChecks>>

CheckLicense ==
    \E require_spdx \in BOOLEAN, recommended \in RecommendedConfigs :
        /\ checkOp.op = "none"
        /\ checkOp' = Called("check_license",
                             [require_spdx |-> require_spdx,
                              recommended |-> recommended,
                              warn_on_restricted |-> PipelineRestricted],
                             check_license(globalAttrs, require_spdx,
                                 recommended, PipelineRestricted))
        /\ UNCHANGED <<dataVars, globalAttrs, timeSteps, notChecks>>

CheckFuture ==
    /\ checkOp.op = "none"
    /\ checkOp' = Called("check_future_timestep", <<>>,
                         check_future_timestep(timeSteps))
    /\ UNCHANGED <<dataVars, globalAttrs, timeSteps, notChecks>>

CheckVariableTimestep ==
    \E allow_variable_timestep \in BOOLEAN :
        /\ checkOp.op = "none"
        /\ checkOp' = Called("check_variable_timestep", allow_variable_timestep,
                             check_variable_timestep(timeSteps, globalAttrs,
                                 allow_variable_timestep))
        /\ UNCHANGED <<dataVars, globalAttrs, timeSteps, notChecks>>

CheckVariableTimestepLegacy ==
    \E allow_variable_timestep \in BOOLEAN :
        /\ checkOp.op = "none"
        /\ checkOp' = Called("check_variable_timestep_legacy",
                             allow_variable_timestep,
                             check_variable_timestep_legacy(timeSteps,
                                 globalAttrs, allow_variable_timestep))
        /\ UNCHANGED <<dataVars, globalAttrs, timeSteps, notChecks>>

CheckConditional ==
    \E conditional_attrs \in ConditionalConfigs :
        /\ checkOp.op = "none"
        /\ checkOp' = Called("check_conditional_global_attributes",
                             conditional_attrs,
                             check_conditional_global_attributes(globalAttrs,
                                 timeSteps, conditional_attrs))
        /\ UNCHANGED <<dataVars, globalAttrs, timeSteps, notChecks>>

CheckGlobalAttributes ==
    \E conditional_attrs \in ConditionalConfigs :
        /\ checkOp.op = "none"
        /\ checkOp' = Called("check_global_attributes", conditional_attrs,
                             check_global_attributes(globalAttrs, <<"license">>,
                                 conditional_attrs))
        /\ UNCHANGED <<dataVars, globalAttrs, timeSteps, notChecks>>

NextChecks ==
    \/ AddVar
    \/ SetAttrs
    \/ CheckNaming
    \/ CheckChunking
    \/ CheckCompression
    \/ CheckSpatial
    \/ CheckFuture
    \/ CheckVariableTimestep
    \/ CheckVariableTimestepLegacy
    \/ CheckLicense
    \/ CheckConditional
    \/ CheckGlobalAttributes

SpecChecks == InitChecks /\ [][NextChecks]_vars

(***************************************************************************)
(* SpecCache: dataset objects are created at an address, their time        *)
(* coordinate is replaced, they are discarded (the address becomes free    *)
(* for the next object), and analyze_dataset_timesteps is called on them.  *)
(***************************************************************************)
CacheTimes == {"single", "regular", "variable", "unanalysable"}

\* what analyze_dataset_timesteps computes from a time coordinate when
\* nothing is cached: pd.to_datetime raises, or (has_variable,
\* unique_diff_count)
Uncached(time) ==
    IF time = "unanalysable"
    THEN [raised |-> "ValueError", value |-> <<>>]
    ELSE [raised |-> "",
          value |-> <<UniqueDiffs(time) > 1, UniqueDiffs(time)>>]

\* analyze_dataset_timesteps(ds) for the object at address id: the call's
\* outcome and the cache afterwards
analyze_dataset_timesteps(id, time, cache) ==
    IF id \in DOMAIN cache
    THEN [result |-> [raised |-> "", value |-> cache[id]], cache |-> cache]
    ELSE IF Uncached(time).raised # ""
    THEN [result |-> Uncached(time), cache |-> cache]
    ELSE [result |-> Uncached(time),
          cache |-> [k \in DOMAIN cache \cup {id} |->
                        IF k = id THEN Uncached(time).value ELSE cache[k]]]

InitCache ==
    /\ IdleReport
    /\ IdleCoords
    /\ IdleCli
    /\ IdleChecks
    /\ IdleOracles
    /\ IdleCache
    /\ IdleRegistry
    /\ IdleAlias

\* a dataset is opened; its object gets a free address
CreateDataset ==
    \E id \in Ids, time \in CacheTimes :
        /\ heap[id] = "free"
        /\ heap' = [heap EXCEPT ![id] = time]
        /\ UNCHANGED <<_TIMESTEP_CACHE, analysis, notCache>>

\* the last reference to a dataset goes away; nothing tells the cache
DiscardDataset ==
    \E id \in Ids :
        /\ heap[id] # "free"
        /\ heap' = [heap EXCEPT ![id] = "free"]
        /\ UNCHANGED <<_TIMESTEP_CACHE, analysis, notCache>>

\* ds["time"] = ... on a live dataset
AssignTime ==
    \E id \in Ids, time \in CacheTimes :
        /\ heap[id] \notin {"free", time}
        /\ heap' = [heap EXCEPT ![id] = time]
        /\ UNCHANGED <<_TIMESTEP_CACHE, analysis, notCache>>

Analyze ==
    \E id \in Ids :
        /\ heap[id] # "free"
        /\ LET out == analyze_dataset_timesteps(id, heap[id], _TIMESTEP_CACHE)
           IN /\ _TIMESTEP_CACHE' = out.cache
              /\ analysis' = [op |-> "analyze", id |-> id, time |-> heap[id],
                              hit |-> id \in DOMAIN _TIMESTEP_CACHE,
                              raised |-> out.result.raised,
                              value |-> out.result.value]
        /\ UNCHANGED <<heap, notCache>>

NextCache ==
    \/ CreateDataset
    \/ DiscardDataset
    \/ AssignTime
    \/ Analyze

SpecCache == InitCache /\ [][NextCache]_vars

(***************************************************************************)
(* SpecRegistry: checks are decorated with log_function_call (at import    *)
(* time, whenever their module is imported), skip_all_checks is entered    *)
(* and left, and decorated checks are called.                              *)
(***************************************************************************)
CheckKeys == {"check_a", "check_b", "check_c"}

\* CHECK_REGISTRY after log_function_call(func) for the key of func
Registered(registry, key) ==
    IF key \in DOMAIN registry THEN registry
    ELSE [k \in DOMAIN registry \cup {key} |->
             IF k = key THEN "real" ELSE registry[k]]

\* mock.patch.dict(CHECK_REGISTRY, {key: _stubbed_check for key in keys})
Stubbed(registry) == [k \in DOMAIN registry |-> "stub"]

\* what the wrapper of key does: CHECK_REGISTRY[key](*args, **kwargs)
WrapperOutcome(registry, key) ==
    IF key \in DOMAIN registry THEN registry[key] ELSE "KeyError"

InitRegistry ==
    /\ IdleReport
    /\ IdleCoords
    /\ IdleCli
    /\ IdleChecks
    /\ IdleOracles
    /\ IdleCache
    /\ IdleRegistry
    /\ IdleAlias

Decorate ==
    \E key \in CheckKeys :
        /\ CHECK_REGISTRY' = Registered(CHECK_REGISTRY, key)
        /\ decorated' = decorated \cup {key}
        /\ outside' = IF patches = <<>> THEN outside \cup {key} ELSE outside
        /\ UNCHANGED <<patches, checkCall, notRegistry>>

EnterSkip ==
    /\ Len(patches) < MaxDepth
    /\ patches' = Append(patches, CHECK_REGISTRY)
    /\ CHECK_REGISTRY' = Stubbed(CHECK_REGISTRY)
    /\ UNCHANGED <<decorated, outside, checkCall, notRegistry>>

\* patch.dict restores the copy it took on entry
ExitSkip ==
    /\ patches # <<>>
    /\ CHECK_REGISTRY' = patches[Len(patches)]
    /\ patches' = SubSeq(patches, 1, Len(patches) - 1)
    /\ UNCHANGED <<decorated, outside, checkCall, notRegistry>>

CallCheck ==
    \E key \in decorated :
        /\ checkCall' = [op |-> "call", key |-> key,
                         active |-> patches # <<>>,
                         early |-> key \in outside,
                         outcome |-> WrapperOutcome(CHECK_REGISTRY, key)]
        /\ UNCHANGED <<CHECK_REGISTRY, decorated, outside, patches,
                       notRegistry>>

NextRegistry ==
    \/ Decorate
    \/ EnterSkip
    \/ ExitSkip
    \/ CallCheck

SpecRegistry == InitRegistry /\ [][NextRegistry]_vars

(***************************************************************************)
(* SpecAlias: the reports A and B as objects that hold a list object;      *)
(* add(), A + B (the new report is named S) and A += B act on the lists.   *)
(* List 1 is made by A's default_factory, list 2 by B's.                   *)
(***************************************************************************)
\* a mutation of __add__: the new report takes over self's list and
\* extends it
PlusSharingList(ls, rs) ==
    [lists |-> [ls EXCEPT ![rs["A"].results] = @ \o ls[rs["B"].results]],
     refs |-> [rs EXCEPT !["S"] =
                  ReportObject(rs["A"].ok /\ rs["B"].ok, rs["A"].results)]]

\* ValidationReport.__add__ for A + B: out = ValidationReport(ok=...) and
\* out.results = [*self.results, *other.results], a new list (list 3; the
\* list of an earlier sum is garbage by then)
PlusInHeap(ls, rs) ==
    [lists |-> [ls EXCEPT ![3] = ls[rs["A"].results] \o ls[rs["B"].results]],
     refs |-> [rs EXCEPT !["S"] = ReportObject(rs["A"].ok /\ rs["B"].ok, 3)]]

\* ValidationReport.__iadd__ for A += B: self.results.extend(other.results)
\* and self.ok = self.ok and other.ok
IAddInHeap(ls, rs) ==
    [lists |-> [ls EXCEPT ![rs["A"].results] = @ \o ls[rs["B"].results]],
     refs |-> [rs EXCEPT !["A"].ok = rs["A"].ok /\ rs["B"].ok]]

\* ValidationReport.add on the report named target:
\* self.results.append(Result(...))
AddInHeap(ls, rs, target, status) ==
    [lists |-> [ls EXCEPT ![rs[target].results] = Append(@, status)],
     refs |-> rs]

\* what a report holds: its flag and the contents of its list
Content(ls, rs, name) ==
    [ok |-> rs[name].ok,
     results |-> IF rs[name].results = 0 THEN <<>> ELSE ls[rs[name].results]]

Contents(ls, rs) == [n \in ReportNames |-> Content(ls, rs, n)]

InitAlias ==
    /\ IdleReport
    /\ IdleCoords
    /\ IdleCli
    /\ IdleChecks
    /\ IdleOracles
    /\ IdleCache
    /\ IdleRegistry
    /\ lists = [n \in 1..3 |-> <<>>]
    /\ \E okA, okB \in BOOLEAN :
           objects = [n \in ReportNames |->
                      CASE n = "A" -> ReportObject(okA, 1)
                        [] n = "B" -> ReportObject(okB, 2)
                        [] OTHER -> ReportObject(TRUE, 0)]
    /\ heapOp = NoHeapOp

HeapAdd ==
    \E target \in ReportNames, status \in {"PASS", "FAIL"} :
        /\ objects[target].results # 0
        /\ Len(lists[objects[target].results]) < MaxHeapLen
        /\ LET out == AddInHeap(lists, objects, target, status)
           IN /\ lists' = out.lists
              /\ objects' = out.refs
        /\ heapOp' = [op |-> "add", target |-> target,
                      before |-> Contents(lists, objects)]
        /\ UNCHANGED notAlias

HeapPlus ==
    /\ Len(lists[objects["A"].results]) + Len(lists[objects["B"].results])
           <= MaxHeapLen
    /\ LET out == PlusInHeap(lists, objects)
       IN /\ lists' = out.lists
          /\ objects' = out.refs
    /\ heapOp' = [op |-> "plus", target |-> "S",
                  before |-> Contents(lists, objects)]
    /\ UNCHANGED notAlias

HeapIAdd ==
    /\ Len(lists[objects["A"].results]) + Len(lists[objects["B"].results])
           <= MaxHeapLen
    /\ LET out == IAddInHeap(lists, objects)
       IN /\ lists' = out.lists
          /\ objects' = out.refs
    /\ heapOp' = [op |-> "iadd", target |-> "A",
                  before |-> Contents(lists, objects)]
    /\ UNCHANGED notAlias

NextAlias ==
    \/ HeapAdd
    \/ HeapPlus
    \/ HeapIAdd

SpecAlias == InitAlias /\ [][NextAlias]_vars

(***************************************************************************)
(* SpecOracles: one oracle-backed check is called; what GitHub, the        *)
(* libraries and the dataset answer is drawn from small sets.              *)
(***************************************************************************)
AttrStates == {"missing", "valid", "invalid"}

MetadataInputs ==
    [created_on : AttrStates, created_by : {"valid", "invalid"},
     created_with : AttrStates, dataset_version : {"valid", "missing"},
     source_org_id : {"valid", "invalid"},
     repo : Responses,
     refs : {<<a, b, c>> : a \in {"200", "404", "500"},
                           b \in {"200", "404", "timeout"},
                           c \in {"200", "404", "connection_error"}}]

GdalInputs ==
    [available : BOOLEAN, target_found : BOOLEAN, grid_mapping_valid : BOOLEAN,
     wkt_present : BOOLEAN, wkt_parses : BOOLEAN, rioxarray_available : BOOLEAN,
     roundtrip : {"ok", "no_metadata", "error"}]

CartopyInputs ==
    [available : BOOLEAN, target_found : BOOLEAN, grid_mapping_valid : BOOLEAN,
     wkt_present : BOOLEAN, wkt_parses : BOOLEAN, has_bbox : BOOLEAN,
     xy_coords : BOOLEAN, transform : {"ok", "nan", "error"}]

InitOracles ==
    /\ IdleReport
    /\ IdleCoords
    /\ IdleCli
    /\ IdleChecks
    /\ IdleOracles
    /\ IdleCache
    /\ IdleRegistry
    /\ IdleAlias

Asked(op, facts, r) ==
    [op |-> op, facts |-> facts, raised |-> r.raised, report |-> r.report,
     requests |-> r.requests]

CheckMetadata ==
    \E m \in MetadataInputs :
        /\ oracleOp.op = "none"
        /\ oracleOp' = Asked("check_mlcast_metadata", m, check_mlcast_metadata(m))
        /\ UNCHANGED notOracles

CheckGdal ==
    \E g \in GdalInputs :
        /\ oracleOp.op = "none"
        /\ oracleOp' = Asked("check_gdal_compatibility", g,
                             check_gdal_compatibility(g))
        /\ UNCHANGED notOracles

CheckCartopy ==
    \E g \in CartopyInputs :
        /\ oracleOp.op = "none"
        /\ oracleOp' = Asked("check_cartopy_compatibility", g,
                             check_cartopy_compatibility(g))
        /\ UNCHANGED notOracles

NextOracles ==
    \/ CheckMetadata
    \/ CheckGdal
    \/ CheckCartopy

SpecOracles == InitOracles /\ [][NextOracles]_vars

(***************************************************************************)
(* Properties of the report model.                                         *)
(***************************************************************************)
NoFail(rep) ==
    \A i \in 1..Len(rep.results) : rep.results[i].status # "FAIL"

IsPrefix(s, t) ==
    /\ Len(s) <= Len(t)
    /\ SubSeq(t, 1, Len(s)) = s

\* M is the merge of X (left) and Y (right).
IsMergeOf(M, X, Y) ==
    /\ M.ok = (X.ok /\ Y.ok)
    /\ Len(M.results) = Len(X.results) + Len(Y.results)
    /\ SubSeq(M.results, 1, Len(X.results)) = X.results
    /\ SubSeq(M.results, Len(X.results) + 1, Len(M.results)) = Y.results

\* C1: in every state reached from the empty report by add() and the merges,
\* the ok flag of each report equals "no result has status FAIL".
C1_OkIffNoFail ==
    /\ A.ok = NoFail(A)
    /\ B.ok = NoFail(B)
    /\ sum # <<>> => sum[1].ok = NoFail(sum[1])

\* C3: both merge forms yield ok = A.ok and B.ok and the results of A followed
\* by the results of B, each in their order; A + B and A += B agree.
C3_MergeLaws ==
    /\ lastOp.op = "plus" => IsMergeOf(sum[1], pre, B) /\ A = pre
    /\ lastOp.op = "iadd" => IsMergeOf(A, pre, B)
    /\ (lastOp.op = "iadd" /\ sum # <<>>) =>
          sum[1].results = A.results /\ sum[1].ok = A.ok

\* C3 witness: both forms were applied to operands that differ in ok and
\* in results.
C3_Witness ==
    /\ lastOp.op = "iadd"
    /\ sum # <<>>
    /\ pre.ok /\ ~B.ok
    /\ Len(pre.results) = 2 /\ Len(B.results) = 1
    /\ pre.results[1] # pre.results[2]
    /\ B.results[1] # pre.results[1]

C5_AppendOnly ==
    [][/\ IsPrefix(A.results, A'.results)
       /\ IsPrefix(B.results, B'.results)]_vars

\* C5 witness: an in-place merge has extended a non-empty report.
C5_Witness ==
    /\ lastOp.op = "iadd"
    /\ Len(pre.results) > 0
    /\ Len(A.results) > Len(pre.results)
    /\ A.results[1].status # A.results[Len(A.results)].status

(***************************************************************************)
(* Properties of the pipeline and of the command line.                     *)
(***************************************************************************)
RECURSIVE ConcatResults(_)
ConcatResults(reports) ==
    IF reports = <<>> THEN <<>>
    ELSE reports[1].results \o ConcatResults(Tail(reports))

\* the place in the pipeline of the check that produced a result
PipelineIndex(result) ==
    CHOOSE i \in 1..Len(PIPELINE) : PIPELINE[i] = result.function

\* C6: has_fails() is true iff some result has status FAIL, and main()
\* returns 1 when the merged report has a FAIL and 0 when it has none.
C6_ExitStatusFromFails ==
    /\ has_fails(report) <=> ~NoFail(report)
    /\ pc = "done" => exitStatus = IF NoFail(report) THEN 0 ELSE 1

\* C6 witness: main() has returned 1 for a report with a FAIL after a PASS.
C6_Witness ==
    /\ pc = "done"
    /\ exitStatus = 1
    /\ Len(report.results) = 2
    /\ report.results[1].status = "PASS"
    /\ report.results[2].status = "FAIL"

\* C7: the results of the report are the results the checks returned,
\* concatenated in pipeline order: at the return of validate_dataset every
\* check has contributed once, and no result of a later check precedes a
\* result of an earlier one.
C7_FoldInPipelineOrder ==
    /\ report.results = ConcatResults(returned)
    /\ Len(returned) = idx - 1
    /\ \A k \in 1..Len(returned) : \A i \in 1..Len(returned[k].results) :
           returned[k].results[i].function = PIPELINE[k]
    /\ \A i, j \in 1..Len(report.results) :
           i < j => PipelineIndex(report.results[i]) <= PipelineIndex(report.results[j])
    /\ pc = "done" => Len(returned) = Len(PIPELINE)

\* C7 witness: validate_dataset has returned a report with results of two
\* different checks.
C7_Witness ==
    /\ pc = "done"
    /\ Len(report.results) = 2
    /\ report.results[1].function # report.results[2].function

(***************************************************************************)
(* Properties of the coordinate matcher and of check_coordinate_names.     *)
(* Matching is restated here from the rule table alone: OR over the        *)
(* clauses, AND over a clause's entries, axis trimmed and upper-cased,     *)
(* every other attribute trimmed and lower-cased.                          *)
(***************************************************************************)
Trimmed(attr, v) ==
    Str(v.text,
        IF v.case = "none" THEN "none"
        ELSE IF attr = "axis" THEN "upper" ELSE "lower",
        FALSE)

ClauseHolds(c, clause) ==
    \A k \in 1..Len(clause) :
        LET attr == clause[k].attr
            value == IF attr = "name" THEN c.name ELSE c.attrs[attr]
        IN /\ value.kind # "none"
           /\ Trimmed(attr, value) \in
                  {Trimmed(attr, o) : o \in clause[k].allowed}

RuleMatches(c, cat) ==
    \E j \in 1..Len(_COORD_RULES[cat]) : ClauseHolds(c, _COORD_RULES[cat][j])

\* the names of the coordinates of d that match cat, in the order of d
RECURSIVE MatchingNames(_, _)
MatchingNames(d, cat) ==
    IF d = <<>> THEN <<>>
    ELSE LET front == MatchingNames(SubSeq(d, 1, Len(d) - 1), cat)
             last == d[Len(d)]
         IN IF RuleMatches(last, cat) THEN Append(front, last.name) ELSE front

Present(cat) == \E i \in 1..Len(ds) : RuleMatches(ds[i], cat)

\* C2: no check propagates an exception, whatever the dataset holds: a call
\* of check_coordinate_names returns a report.
C2_ChecksNeverRaise ==
    coordOp.op = "check" => ~coordOp.raised

\* C8: a coordinate is matched for a category iff it satisfies at least one
\* clause of the category's rule (AND within the clause, axis trimmed and
\* upper-cased, the other attributes trimmed and lower-cased); "latitude"
\* without attributes, standard_name="latitude" under any name, and axis="y"
\* with units="degrees_North" each match lat.
C8_MatchIffSomeClause ==
    /\ coordOp.op = "find" =>
          \A i \in 1..Len(ds) :
              RuleMatches(ds[i], coordOp.cat)
                  <=> ds[i].name \in Range(coordOp.matches)
    /\ AnyRule(Lit("latitude"), Attrs(None, None, None), _COORD_RULES["lat"], 1) = "True"
    /\ AnyRule(Lit("foo"), Attrs(Lit("latitude"), None, None), _COORD_RULES["lat"], 1) = "True"
    /\ AnyRule(Lit("foo"), Attrs(None, Lit("y"), Frag("degrees_north")),
               _COORD_RULES["lat"], 1) = "True"

\* C9: _find_coordinates returns exactly the names of the coordinates that
\* match a clause of the category's rules, in the dataset's coordinate
\* order, each once.
C9_FindInOrder ==
    coordOp.op = "find" =>
        /\ coordOp.matches = MatchingNames(ds, coordOp.cat)
        /\ \A i, j \in 1..Len(coordOp.matches) :
               coordOp.matches[i] = coordOp.matches[j] => i = j

FailsOf(rep) ==
    {i \in 1..Len(rep.results) : rep.results[i].status = "FAIL"}

SubRole(cat) ==
    CASE cat = "lat" -> Lit("latitude")
      [] cat = "lon" -> Lit("longitude")
      [] cat = "x" -> Lit("projection_x_coordinate")
      [] cat = "y" -> Lit("projection_y_coordinate")

SubRoles == {SubRole(cat) : cat \in {"lat", "lon", "x", "y"}}

\* the halves that are missing from the pairs the configuration requires
MissingRequired(cfg) ==
    {cat \in {"lat", "lon"} : cfg.latlon /\ ~Present(cat)}
    \cup {cat \in {"x", "y"} : cfg.projected /\ ~Present(cat)}

MatcherAgreesWhenItReturns ==
    (coordOp.op = "find" /\ ~coordOp.raised) =>
        coordOp.matches = MatchingNames(ds, coordOp.cat)

(***************************************************************************)
(* Properties of the data variable checks (SpecChecks).                    *)
(***************************************************************************)
\* the i-th data variable is not a grid_mapping definition of the dataset
Qualifying(i) ==
    \A j \in 1..Len(dataVars) :
        dataVars[j].attrs.grid_mapping # dataVars[i].name

\* the positions of the findings the last check added for the variable
\* (or attribute) called name
FindingsOf(name) ==
    {k \in 1..Len(checkOp.origin) : checkOp.origin[k] = name}

\* the positions among ks of the findings with this requirement
Titled(ks, requirement) ==
    {k \in ks : checkOp.report.results[k].requirement = requirement}

\* a string compared trimmed and without regard to case
Folded(v) == lower(strip(v))

\* the configuration of the last naming check names a standard_name
\* without a rule
NamingConfigError ==
    \E n \in checkOp.config : ~InCfRules(lower(n))

\* the variable has all three attributes and an allowed standard_name
NamedAndAllowed(v) ==
    /\ \A a \in {"long_name", "standard_name", "units"} : v.attrs[a].kind # "absent"
    /\ v.attrs.standard_name.kind = "str"
    /\ Folded(v.attrs.standard_name) \in {lower(n) : n \in checkOp.config}

\* the name and units statuses the rule of the variable's standard_name asks for
ExpectedNameStatus(v) ==
    LET rule == _CF_RULES[v.attrs.standard_name.text] IN
    IF Folded(v.name) \in {lower(n) : n \in Range(rule.names)}
    THEN "PASS" ELSE "FAIL"

ExpectedUnitsStatus(v) ==
    LET rule == _CF_RULES[v.attrs.standard_name.text]
        units == strip(v.attrs.units)
    IN IF units \notin Range(rule.units) THEN "FAIL"
       ELSE IF units # rule.canonical_unit THEN "WARNING"
       ELSE "PASS"

\* the findings of the last naming check for the i-th variable are one name
\* finding and one units finding with the expected statuses
NameAndUnitsFound(i) ==
    LET v == dataVars[i]
        ks == FindingsOf(v.name)
        names == Titled(ks, "Variable name validation")
        units == Titled(ks, "Units validation")
    IN /\ checkOp.raised = ""
       /\ Cardinality(names) = 1
       /\ Cardinality(units) = 1
       /\ \A k \in names :
              checkOp.report.results[k].status = ExpectedNameStatus(v)
       /\ \A k \in units :
              checkOp.report.results[k].status = ExpectedUnitsStatus(v)

\* C11: after check_names_and_attrs, every qualifying data variable that has
\* long_name, standard_name and units and an allowed standard_name has
\* exactly one name finding (PASS iff its name is among the aliases of the
\* standard_name, else FAIL) and exactly one units finding (FAIL when the
\* units are not allowed, WARNING when allowed but not canonical, PASS when
\* canonical).
C11_NameAndUnitsFindings ==
    (checkOp.op = "check_names_and_attrs" /\ ~NamingConfigError) =>
        \A i \in 1..Len(dataVars) :
            (Qualifying(i) /\ NamedAndAllowed(dataVars[i])) => NameAndUnitsFound(i)

\* The same for the calls that return: the findings are as C11 says
\* whenever check_names_and_attrs hands back a report.
C11_WhenItReturns ==
    (checkOp.op = "check_names_and_attrs" /\ checkOp.raised = "") =>
        \A i \in 1..Len(dataVars) :
            (Qualifying(i) /\ NamedAndAllowed(dataVars[i])) => NameAndUnitsFound(i)

\* the examples of C11 as they come out of a call that returns
C11_Examples ==
    /\ checkOp.op = "check_names_and_attrs"
    /\ checkOp.raised = ""
    /\ \E i \in 1..Len(dataVars) :
          /\ dataVars[i].name = Lit("rr")
          /\ dataVars[i].attrs.units = Lit("mm/h")
          /\ \E k \in Titled(FindingsOf(Lit("rr")), "Variable name validation") :
                 checkOp.report.results[k].status = "PASS"
          /\ \E k \in Titled(FindingsOf(Lit("rr")), "Units validation") :
                 checkOp.report.results[k].status = "WARNING"

\* the first of long_name, standard_name, units the variable lacks
ClaimOrder == <<"long_name", "standard_name", "units">>

FirstAbsent(v) ==
    ClaimOrder[CHOOSE k \in 1..3 :
        /\ v.attrs[ClaimOrder[k]].kind = "absent"
        /\ \A h \in 1..(k - 1) : v.attrs[ClaimOrder[h]].kind # "absent"]

LacksAttribute(v) ==
    \E a \in Range(ClaimOrder) : v.attrs[a].kind = "absent"

\* the last naming check returned one FAIL for the i-th variable, naming
\* its first missing attribute, and findings for every other qualifying
\* variable
OneFailForMissing(i) ==
    LET v == dataVars[i]
        ks == FindingsOf(v.name)
    IN /\ checkOp.raised = ""
       /\ Cardinality(ks) = 1
       /\ \A k \in ks :
              /\ checkOp.report.results[k].status = "FAIL"
              /\ checkOp.report.results[k].requirement =
                     "Required attribute '" \o FirstAbsent(v) \o "'"
       /\ \A j \in 1..Len(dataVars) :
              Qualifying(j) => FindingsOf(dataVars[j].name) # {}

\* C12: after check_names_and_attrs, a qualifying data variable that lacks
\* long_name, standard_name or units has exactly one finding, a FAIL naming
\* the first missing attribute in that order, and every other qualifying
\* variable has been evaluated.
C12_OneFailForFirstMissing ==
    (checkOp.op = "check_names_and_attrs" /\ ~NamingConfigError) =>
        \A i \in 1..Len(dataVars) :
            (Qualifying(i) /\ LacksAttribute(dataVars[i])) => OneFailForMissing(i)

\* The same for the calls that return.
C12_WhenItReturns ==
    (checkOp.op = "check_names_and_attrs" /\ checkOp.raised = "") =>
        \A i \in 1..Len(dataVars) :
            (Qualifying(i) /\ LacksAttribute(dataVars[i])) => OneFailForMissing(i)

\* the chunk sizes of the first axis that differ from the last chunking
\* check's time_chunksize
Offending(v) ==
    LET Differs(c) == c # checkOp.config IN
    IF v.data.chunks = <<>> THEN <<>> ELSE SelectSeq(v.data.chunks[1], Differs)

\* the sizes a FAIL detail of the chunking check shows after "Found:"
ShownSizes(detail) ==
    [k \in 1..(Len(detail) - 4) |-> detail[k + 3]]

\* the last chunking check returned one finding for the i-th variable: PASS
\* iff no first-axis chunk size differs from time_chunksize, and a FAIL
\* shows nothing but the first offending sizes
ChunkingFound(i) ==
    LET v == dataVars[i]
        ks == FindingsOf(v.name)
    IN /\ checkOp.raised = ""
       /\ Cardinality(ks) = 1
       /\ \A k \in ks :
              LET r == checkOp.report.results[k] IN
              /\ r.status = "PASS" <=> Offending(v) = <<>>
              /\ r.status # "PASS" => r.status = "FAIL"
              /\ r.status = "FAIL" =>
                     /\ Len(ShownSizes(r.detail)) <= FoundShown
                     /\ IsPrefix([n \in 1..Len(ShownSizes(r.detail)) |->
                                     ShownSizes(r.detail)[n]],
                                 [n \in 1..Len(Offending(v)) |->
                                     Num(Offending(v)[n])])

\* C13: after check_chunking_strategy, every qualifying chunked data
\* variable has one finding, PASS iff every chunk size of the first axis
\* equals time_chunksize and FAIL otherwise, and the detail of a FAIL names
\* only the first few offending chunk sizes.
C13_PassIffFirstAxisChunks ==
    checkOp.op = "check_chunking_strategy" =>
        \A i \in 1..Len(dataVars) :
            (Qualifying(i) /\ dataVars[i].data.dask) => ChunkingFound(i)

\* The PASS/FAIL half of C13 for the calls that return, together with what
\* the detail of a FAIL does show: the first FoundShown sizes of the axis.
C13_WhenItReturns ==
    (checkOp.op = "check_chunking_strategy" /\ checkOp.raised = "") =>
        \A i \in 1..Len(dataVars) :
            (Qualifying(i) /\ dataVars[i].data.dask) =>
                LET v == dataVars[i]
                    ks == FindingsOf(v.name)
                IN /\ Cardinality(ks) = 1
                   /\ \A k \in ks :
                          LET r == checkOp.report.results[k] IN
                          /\ r.status = "PASS" <=> Offending(v) = <<>>
                          /\ r.status # "PASS" =>
                                 /\ r.status = "FAIL"
                                 /\ ShownSizes(r.detail) =
                                        [n \in 1..Len(Slice(v.data.chunks[1], FoundShown))
                                            |-> Num(v.data.chunks[1][n])]

\* the example [1, 1, 2] against 1: a FAIL that shows 1, 1, 2
C13_Example ==
    /\ checkOp.op = "check_chunking_strategy"
    /\ checkOp.config = 1
    /\ checkOp.raised = ""
    /\ \E i \in 1..Len(dataVars) :
          /\ dataVars[i].data = Chunked(<< <<1, 1, 2>> >>)
          /\ \E k \in FindingsOf(dataVars[i].name) :
                 /\ checkOp.report.results[k].status = "FAIL"
                 /\ ShownSizes(checkOp.report.results[k].detail) =
                        <<Num(1), Num(1), Num(2)>>

\* the compressor a variable's encoding holds: the compressor entry, else
\* the first of the compressors, else the first filter of a compressor
\* family; "" when there is none
ActualCompressor(enc) ==
    IF enc.compressor # "" THEN enc.compressor
    ELSE IF enc.compressors # <<>> THEN enc.compressors[1]
    ELSE LET fs == SelectSeq(enc.filters, LAMBDA f : f \in CompressorFamilies)
         IN IF fs = <<>> THEN "" ELSE fs[1]

\* the last compression check returned one finding for the i-th variable
\* with this status
CompressionFound(i, status) ==
    LET ks == FindingsOf(dataVars[i].name) IN
    /\ checkOp.raised = ""
    /\ Cardinality(ks) = 1
    /\ \A k \in ks : checkOp.report.results[k].status = status

\* C14: after check_compression, a qualifying data variable has a FAIL when
\* compression is required and its encoding holds no compressor, a PASS
\* when its compressor is the recommended one, and otherwise a WARNING that
\* names its compressor.
C14_CompressionStatus ==
    checkOp.op = "check_compression" =>
        \A i \in 1..Len(dataVars) :
            Qualifying(i) =>
                LET actual == ActualCompressor(dataVars[i].encoding) IN
                IF actual = ""
                THEN checkOp.config.require_compression => CompressionFound(i, "FAIL")
                ELSE IF Lit(actual) = checkOp.config.recommended_compression
                THEN CompressionFound(i, "PASS")
                ELSE /\ CompressionFound(i, "WARNING")
                     /\ \A k \in FindingsOf(dataVars[i].name) :
                            Lit(actual) \in Range(checkOp.report.results[k].detail)

\* What check_compression does when compression is required: a variable
\* whose compressor entry is the recommended codec gets a PASS and every
\* other variable a WARNING; no variable gets a FAIL.
C14_NeverFails ==
    checkOp.op = "check_compression" =>
        /\ checkOp.raised = ""
        /\ \A k \in 1..Len(checkOp.report.results) :
               checkOp.report.results[k].status # "FAIL"
        /\ ~checkOp.config.require_compression => checkOp.report.results = <<>>

\* a variable without any compressor was checked with compression required
C14_Uncompressed ==
    /\ checkOp.op = "check_compression"
    /\ checkOp.config.require_compression
    /\ \E i \in 1..Len(dataVars) :
          /\ Qualifying(i)
          /\ ActualCompressor(dataVars[i].encoding) = ""
          /\ CompressionFound(i, "WARNING")

(***************************************************************************)
(* Properties of the licence check inside the pipeline, and of the         *)
(* command line before validation starts.                                  *)
(***************************************************************************)
\* the places of the findings titled "License metadata" in the merged report
LicenseMetadataFindings ==
    {i \in 1..Len(report.results) :
        report.results[i].requirement = "License metadata"}

\* the report check_license returned to validate_dataset
LicenseReport ==
    returned[CHOOSE k \in 1..Len(PIPELINE) : PIPELINE[k] = "check_license"]

\* C15: when validate_dataset returns for a dataset without the global
\* `license` attribute, check_license has returned a single finding, the
\* merged report holds exactly one finding titled "License metadata", that
\* finding is a FAIL, and has_fails() is true.
C15_MissingLicenseOneFail ==
    (pc = "done" /\ ~InAttrs("license", dataset)) =>
        /\ Len(LicenseReport.results) = 1
        /\ Cardinality(LicenseMetadataFindings) = 1
        /\ \A i \in LicenseMetadataFindings :
               /\ report.results[i].status = "FAIL"
               /\ report.results[i].function = "check_license"
        /\ has_fails(report)
        /\ exitStatus = 1

\* C15 witness: validate_dataset has returned for a dataset without a
\* license, and the licence finding is the only FAIL of the report.
C15_Witness ==
    /\ pc = "done"
    /\ ~InAttrs("license", dataset)
    /\ \E i \in 1..Len(report.results) :
          /\ report.results[i].requirement = "License metadata"
          /\ \A j \in 1..Len(report.results) :
                 report.results[j].status = "FAIL" => j = i

\* the command lines the catalog refuses: a positional argument is missing,
\* the data stage is not in the catalog, or the product is not one of the
\* stage's products
Refused(a) ==
    \/ a.data_stage = ""
    \/ a.product = ""
    \/ a.dataset_path = ""
    \/ \A stage \in DOMAIN Catalog :
           a.data_stage = stage => a.product \notin Catalog[stage]

\* C20: a command line without --list that misses a positional argument or
\* names an unknown data stage or product ends as a usage error with a
\* nonzero exit status, with no validator module loaded, no dataset opened
\* and no report produced or printed; --list ends with status 0 and opens
\* no dataset.
C20_UsageErrorBeforeAccess ==
    /\ (pc # "start" /\ ~args.list /\ Refused(args)) => pc = "usage_error"
    /\ pc = "usage_error" =>
           /\ exitStatus \notin {0, NotExited}
           /\ effects = {}
           /\ report = EmptyReport
           /\ returned = <<>>
    /\ pc = "listed" =>
           /\ exitStatus = 0
           /\ effects = {"catalog_printed"}
           /\ report = EmptyReport
    /\ "dataset_opened" \in effects => "module_loaded" \in effects

\* C20 witness: an unknown product of a known stage, with a dataset path
\* given, has ended as a usage error.
C20_Witness ==
    /\ pc = "usage_error"
    /\ args.data_stage = "source_data"
    /\ args.product = "satellite"
    /\ args.dataset_path = "ds.zarr"

\* C20 witness for --list: the catalog was printed for a command line that
\* names an unknown stage.
C20_Listed ==
    /\ pc = "listed"
    /\ args.data_stage = "nowcast"

(***************************************************************************)
(* Properties of the checks of the global attributes.                      *)
(***************************************************************************)
\* what the claim about a present license expects of the report of the last
\* check_license call
LicenseVerdict ==
    LET license_id == strip(globalAttrs.license)
        rs == checkOp.report.results
        cfg == checkOp.config
        bad == SelectSeq(cfg.recommended, ParseFails)
        good == {Render(cfg.recommended[i]) :
                    i \in {j \in 1..Len(cfg.recommended) :
                              ~ParseFails(cfg.recommended[j])}}
        restricted == \E i \in 1..Len(cfg.warn_on_restricted) :
                          TokenIn(upper(cfg.warn_on_restricted[i]),
                                  upper(Render(license_id)))
    IN
    IF ParseFails(license_id)
    THEN /\ Len(rs) = 1
         /\ rs[1].status = IF cfg.require_spdx THEN "FAIL" ELSE "WARNING"
    ELSE /\ Len(rs) = Len(bad) + 1
         /\ \A k \in 1..Len(bad) :
                /\ rs[k].status = "WARNING"
                /\ Quoted(bad[k]) \in Range(rs[k].detail)
         /\ LET last == rs[Len(rs)] IN
            IF Render(license_id) \in good THEN last.status = "PASS"
            ELSE /\ last.status = "WARNING"
                 /\ IF restricted
                    THEN Frag("has restrictions (NC/ND)") \in Range(last.detail)
                    ELSE Frag("requires case-by-case review") \in Range(last.detail)

\* C16: check_license, called on a dataset whose `license` attribute is
\* present, returns one finding when the license does not parse as SPDX
\* (FAIL if require_spdx, else WARNING); when it parses no finding is a
\* FAIL: PASS if the normalized license is a normalized recommended one,
\* else WARNING for a restricted token, else WARNING "requires review", and
\* one more WARNING per recommended entry that does not parse.
C16_PresentLicense ==
    (checkOp.op = "check_license" /\ InAttrs("license", globalAttrs)) =>
        /\ checkOp.raised = ""
        /\ LicenseVerdict

\* C16 for the calls that return.
C16_WhenItReturns ==
    (/\ checkOp.op = "check_license"
     /\ InAttrs("license", globalAttrs)
     /\ checkOp.raised = "") => LicenseVerdict

\* a restricted license that parses was checked against a recommended list
\* with an entry that does not parse: two WARNINGs
C16_Example ==
    /\ checkOp.op = "check_license"
    /\ checkOp.raised = ""
    /\ globalAttrs.license = Up("cc-by-nc-4.0")
    /\ Len(checkOp.report.results) = 2
    /\ \A k \in 1..2 : checkOp.report.results[k].status = "WARNING"

\* the license was present but not a string, and the call raised
C16_Raised ==
    /\ checkOp.op = "check_license"
    /\ globalAttrs.license = IntOne
    /\ checkOp.raised = "AttributeError"

\* the two checks of conditional global attributes
ConditionalOps == {"check_conditional_global_attributes", "check_global_attributes"}

\* every attribute of the last call's configuration has a predicate
AllRegistered ==
    \A i \in 1..Len(checkOp.config) : checkOp.config[i] \in CONDITION_FUNCTIONS

\* the predicate of a registered attribute is true of the dataset
Applies(attr) == ConditionResult(attr, timeSteps) = "True"

\* the places of the findings the last call made for a conditional attribute
ConditionalFindings(attr) ==
    {k \in 1..Len(checkOp.report.results) :
        checkOp.report.results[k].requirement = ConditionalTitle(attr)}

\* what the claim expects for each configured conditional attribute
ConditionalVerdict ==
    \A i \in 1..Len(checkOp.config) :
        LET attr == checkOp.config[i]
            ks == ConditionalFindings(attr)
        IN IF Applies(attr)
           THEN /\ Cardinality(ks) = 1
                /\ \A k \in ks :
                       checkOp.report.results[k].status =
                           IF InAttrs(attr, globalAttrs) THEN "PASS" ELSE "FAIL"
           ELSE ks = {}

\* C17: for each configured conditional attribute, a check of conditional
\* global attributes emits exactly one finding when the attribute's
\* predicate is true of the dataset (FAIL if the attribute is absent, PASS
\* if present) and no finding at all when it is false.
C17_ConditionalAttributes ==
    (checkOp.op \in ConditionalOps /\ AllRegistered) =>
        /\ checkOp.raised = ""
        /\ ConditionalVerdict

\* C17 for check_conditional_global_attributes alone, for the calls that
\* return.
C17_ResolverWhenItReturns ==
    (/\ checkOp.op = "check_conditional_global_attributes"
     /\ checkOp.raised = "") => ConditionalVerdict

\* check_global_attributes has returned a WARNING for an absent conditional
\* attribute
C17_LegacyWarning ==
    /\ checkOp.op = "check_global_attributes"
    /\ checkOp.config = <<"consistent_timestep_start", "last_valid_timestep">>
    /\ ~InAttrs("consistent_timestep_start", globalAttrs)
    /\ \E k \in ConditionalFindings("consistent_timestep_start") :
           checkOp.report.results[k].status = "WARNING"

\* the resolver has returned a FAIL for a required attribute that is absent
C17_RequiredAndAbsent ==
    /\ checkOp.op = "check_conditional_global_attributes"
    /\ timeSteps = "variable"
    /\ ~InAttrs("consistent_timestep_start", globalAttrs)
    /\ \E k \in ConditionalFindings("consistent_timestep_start") :
           checkOp.report.results[k].status = "FAIL"

\* an allowed standard_name of the last naming call has no naming rule
NoRuleFor(names) == \E n \in names : n.text \notin DOMAIN _CF_RULES

\* C18: whatever the dataset holds, check_conditional_global_attributes
\* raises NotImplementedError when a configured attribute has no registered
\* predicate, and check_names_and_attrs raises NotImplementedError when an
\* allowed standard_name has no naming rule; neither returns a report.
C18_ConfigurationErrorsRaise ==
    /\ (checkOp.op = "check_conditional_global_attributes" /\ ~AllRegistered) =>
           /\ checkOp.raised = "NotImplementedError"
           /\ checkOp.report = EmptyReport
    /\ (checkOp.op = "check_names_and_attrs" /\ NoRuleFor(checkOp.config)) =>
           /\ checkOp.raised = "NotImplementedError"
           /\ checkOp.report = EmptyReport

\* What does hold: a call with a configuration error never returns a
\* report, and the naming check raises NotImplementedError before it looks
\* at the dataset.
C18_NoReportReturned ==
    /\ (checkOp.op = "check_conditional_global_attributes" /\ ~AllRegistered) =>
           /\ checkOp.raised \in {"NotImplementedError", "ValueError"}
           /\ checkOp.raised = "ValueError" => timeSteps = "unanalysable"
           /\ checkOp.report = EmptyReport
    /\ (checkOp.op = "check_names_and_attrs" /\ NoRuleFor(checkOp.config)) =>
           /\ checkOp.raised = "NotImplementedError"
           /\ checkOp.report = EmptyReport

\* the resolver raised another exception before it reached the attribute
\* without a predicate
C18_OtherException ==
    /\ checkOp.op = "check_conditional_global_attributes"
    /\ checkOp.config = <<"consistent_timestep_start", "valid_time_range">>
    /\ checkOp.raised = "ValueError"

(***************************************************************************)
(* Properties of the checks that depend on an oracle.                      *)
(***************************************************************************)
\* the statuses of the findings of the last oracle-backed check that carry
\* this requirement
StatusesOf(requirement) ==
    {oracleOp.report.results[k].status :
        k \in {j \in 1..Len(oracleOp.report.results) :
                  oracleOp.report.results[j].requirement = requirement}}

\* a response that is neither "exists" nor "not found": a timeout, a
\* network error or an unexpected status
NoAnswer(response) == response \notin {"200", "404"}

\* the first response of the revision lookup that is not a 404, or "404"
FirstAnswer(refs) ==
    LET ks == {k \in 1..Len(refs) : refs[k] # "404"} IN
    IF ks = {} THEN "404"
    ELSE refs[CHOOSE k \in ks : \A j \in ks : k <= j]

\* C19: a check whose oracle is unavailable returns its report without
\* raising, with a WARNING and no FAIL for the requirement it could not
\* verify: GDAL or cartopy not installed, or a GitHub repository or
\* revision lookup that times out, meets a network error or gets an
\* unexpected status.  The revision is looked up only after the repository
\* lookup answered that the repository exists.
C19_OracleUnavailableWarns ==
    /\ oracleOp.raised = ""
    /\ (oracleOp.op = "check_gdal_compatibility" /\ ~oracleOp.facts.available) =>
           /\ StatusesOf("GDAL availability") = {"WARNING"}
           /\ NoFail(oracleOp.report)
    /\ (oracleOp.op = "check_cartopy_compatibility" /\ ~oracleOp.facts.available) =>
           /\ StatusesOf("Cartopy availability") = {"WARNING"}
           /\ NoFail(oracleOp.report)
    /\ (oracleOp.op = "check_mlcast_metadata" /\ oracleOp.facts.created_with = "valid") =>
           /\ NoAnswer(oracleOp.facts.repo) =>
                  /\ StatusesOf("Creator software GitHub repository") = {"WARNING"}
                  /\ StatusesOf("Creator software GitHub revision") = {}
           /\ (oracleOp.facts.repo = "200" /\ NoAnswer(FirstAnswer(oracleOp.facts.refs))) =>
                  StatusesOf("Creator software GitHub revision") = {"WARNING"}
    /\ oracleOp.op = "check_mlcast_metadata" =>
           ("ref" \in Range(oracleOp.requests) =>
                /\ oracleOp.requests[1] = "repo"
                /\ oracleOp.facts.created_with = "valid"
                /\ oracleOp.facts.repo = "200"
                /\ \A k \in 2..Len(oracleOp.requests) : oracleOp.requests[k] = "ref")

\* C19 witness: the repository exists and the revision lookup got a 404 for
\* the tag and then an unexpected status; the check returned a WARNING for
\* the revision.
C19_Witness ==
    /\ oracleOp.op = "check_mlcast_metadata"
    /\ oracleOp.facts.repo = "200"
    /\ oracleOp.facts.refs[1] = "404"
    /\ oracleOp.facts.refs[2] = "timeout"
    /\ oracleOp.requests = <<"repo", "ref", "ref">>
    /\ oracleOp.raised = ""
    /\ StatusesOf("Creator software GitHub revision") = {"WARNING"}

\* GDAL is not installed and the check returned its single WARNING
C19_GdalUnavailable ==
    /\ oracleOp.op = "check_gdal_compatibility"
    /\ ~oracleOp.facts.available
    /\ Len(oracleOp.report.results) = 1
    /\ oracleOp.report.results[1].status = "WARNING"

(***************************************************************************)
(* Properties of a cancelled run.                                          *)
(***************************************************************************)
\* how the call of validate_dataset ended: it returned its report, or an
\* exception left it
Outcome ==
    IF pc = "done" THEN "returned"
    ELSE IF pc \in {"crashed", "interrupted"} THEN "raised"
    ELSE "running"

\* C21: a run that is cancelled after some checks have completed ends with
\* validate_dataset returning the partial report, the findings of the checks
\* that completed in pipeline order; it does not raise.
C21_CancelReturnsPartial ==
    pc = "interrupted" =>
        /\ Outcome = "returned"
        /\ report.results = ConcatResults(returned)

\* What the code does on cancellation: the local report holds the findings
\* of the checks that completed, but the exception leaves validate_dataset,
\* nothing is printed and the exit status is not 0.
C21_PartialReportLost ==
    pc = "interrupted" =>
        /\ Outcome = "raised"
        /\ report.results = ConcatResults(returned)
        /\ Len(returned) = idx - 1
        /\ "report_printed" \notin effects
        /\ exitStatus # 0

\* a run was cancelled after two checks had added a finding each
C21_CancelledAfterTwo ==
    /\ pc = "interrupted"
    /\ idx > 2
    /\ Len(report.results) = 2

(***************************************************************************)
(* Properties of get_compressor_name.                                      *)
(***************************************************************************)
\* the name the claim gives an encoding: the codec of the compressor entry,
\* else the last filter of a compressor family, else "none"
LastCompressorName(enc) ==
    LET fs == SelectSeq(enc.filters, LAMBDA f : f \in CompressorFamilies) IN
    IF enc.compressor # "" THEN Lit(enc.compressor)
    ELSE IF fs = <<>> THEN Lit("none")
    ELSE Lit(fs[Len(fs)])

\* the name the last compression check's finding for the i-th variable
\* shows: the recommended codec on a PASS, else the compressor the WARNING
\* names
ShownCompressor(i) ==
    LET k == CHOOSE j \in FindingsOf(dataVars[i].name) : TRUE
        r == checkOp.report.results[k]
    IN IF r.status = "PASS" THEN checkOp.config.recommended_compression
       ELSE r.detail[3]

\* the variables whose encoding the claim speaks of: a single compressor
\* codec, or a filter pipeline
SingleOrFilters(i) ==
    /\ Qualifying(i)
    /\ dataVars[i].encoding.compressors = <<>>

\* C22: get_compressor_name gives the codec of the compressor entry when
\* there is one, else the name of the last filter step of a compressor
\* family, else "none"; a compression check that requires compression
\* reports that name for every variable.
C22_LastMatchingFilter ==
    /\ \A i \in 1..Len(dataVars) :
           dataVars[i].encoding.compressors = <<>> =>
               get_compressor_name(dataVars[i].encoding)
                   = LastCompressorName(dataVars[i].encoding)
    /\ (checkOp.op = "check_compression" /\ checkOp.config.require_compression) =>
           \A i \in 1..Len(dataVars) :
               SingleOrFilters(i) =>
                   ShownCompressor(i) = LastCompressorName(dataVars[i].encoding)

\* What the code does: the name is that of the first filter step of a
\* compressor family.
C22_FirstMatchingFilter ==
    (checkOp.op = "check_compression" /\ checkOp.config.require_compression) =>
        \A i \in 1..Len(dataVars) :
            SingleOrFilters(i) =>
                ShownCompressor(i) = Lit(ActualCompressor(dataVars[i].encoding))
                \/ (/\ ActualCompressor(dataVars[i].encoding) = ""
                    /\ ShownCompressor(i) = Lit("none"))

\* a pipeline zlib, shuffle, zstd was checked against the recommended zstd
\* and reported as zlib
C22_TwoCompressorFilters ==
    /\ checkOp.op = "check_compression"
    /\ checkOp.config.require_compression
    /\ \E i \in 1..Len(dataVars) :
          /\ dataVars[i].encoding.filters = <<"zlib", "shuffle", "zstd">>
          /\ Qualifying(i)
          /\ ShownCompressor(i) = Lit("zlib")

(***************************************************************************)
(* Properties of check_spatial_requirements.                               *)
(***************************************************************************)
\* the sizes of the dimensions of a variable other than time
NonTimeSizes(v) ==
    LET ds2 == SelectSeq(v.dims, LAMBDA d : d[1] \notin {"time", "t"})
    IN [k \in 1..Len(ds2) |-> ds2[k][2]]

\* a variable with two non-time dimensions (height, width) supports a crop
\* of min_crop_size = (height, width)
SupportsCrop(v, min_crop_size) ==
    /\ NonTimeSizes(v)[1] >= min_crop_size[1]
    /\ NonTimeSizes(v)[2] >= min_crop_size[2]

\* C23: check_spatial_requirements emits one finding for every data
\* variable that is not a grid-mapping definition: FAIL with fewer than two
\* non-time dimensions, else PASS iff the variable supports a crop of
\* min_crop_size[0] by min_crop_size[1], else FAIL.
C23_CropSizeHeightAndWidth ==
    checkOp.op = "check_spatial_requirements" =>
        \A i \in 1..Len(dataVars) :
            Qualifying(i) =>
                LET ks == FindingsOf(dataVars[i].name)
                    expected ==
                        IF Len(NonTimeSizes(dataVars[i])) < 2 THEN "FAIL"
                        ELSE IF SupportsCrop(dataVars[i], checkOp.config.min_crop_size)
                        THEN "PASS" ELSE "FAIL"
                IN /\ checkOp.raised = ""
                   /\ Cardinality(ks) = 1
                   /\ \A k \in ks : checkOp.report.results[k].status = expected

\* What the code does: every non-time size is compared with the height,
\* min_crop_size[0]; the width is only printed.
C23_HeightOnly ==
    checkOp.op = "check_spatial_requirements" =>
        \A i \in 1..Len(dataVars) :
            Qualifying(i) =>
                LET ks == FindingsOf(dataVars[i].name)
                    sizes == NonTimeSizes(dataVars[i])
                    expected ==
                        IF Len(sizes) < 2 THEN "FAIL"
                        ELSE IF \A k \in 1..Len(sizes) :
                                    sizes[k] >= checkOp.config.min_crop_size[1]
                        THEN "PASS" ELSE "FAIL"
                IN /\ checkOp.raised = ""
                   /\ Cardinality(ks) = 1
                   /\ \A k \in ks : checkOp.report.results[k].status = expected

\* a 2 x 2 field was checked against a minimum crop of 2 x 3 and passed
C23_TooNarrowPasses ==
    /\ checkOp.op = "check_spatial_requirements"
    /\ checkOp.config.min_crop_size = <<2, 3>>
    /\ \E i \in 1..Len(dataVars) :
          /\ NonTimeSizes(dataVars[i]) = <<2, 2>>
          /\ \E k \in FindingsOf(dataVars[i].name) :
                 checkOp.report.results[k].status = "PASS"

(***************************************************************************)
(* Properties of the last_valid_timestep requirement.                      *)
(***************************************************************************)
\* some time value of the dataset is later than now
HasFutureTimesteps == timeSteps \in {"future", "far_future"}

\* the findings of the last check that are about last_valid_timestep
LastValidFindings ==
    {k \in 1..Len(checkOp.report.results) :
        checkOp.report.results[k].requirement
            \in {ConditionalTitle("last_valid_timestep"),
                 "Last valid timestep metadata"}}

\* C24: last_valid_timestep is required exactly when the dataset has future
\* timesteps: the conditional attribute check configured with it emits one
\* finding for it when some time value is later than now (FAIL if the
\* attribute is absent, PASS if present) and none otherwise.
C24_RequiredWithFutureTimesteps ==
    (/\ checkOp.op = "check_conditional_global_attributes"
     /\ checkOp.config = <<"last_valid_timestep", "consistent_timestep_start">>
     /\ timeSteps # "unanalysable") =>
        /\ _requires_future_timestep_metadata(timeSteps) = "True"
               <=> HasFutureTimesteps
        /\ IF HasFutureTimesteps
           THEN /\ Cardinality(LastValidFindings) = 1
                /\ \A k \in LastValidFindings :
                       checkOp.report.results[k].status =
                           IF InAttrs("last_valid_timestep", globalAttrs)
                           THEN "PASS" ELSE "FAIL"
           ELSE LastValidFindings = {}

\* What the code does: the predicate is a stub without a return value, so
\* neither the conditional attribute check nor check_future_timestep ever
\* emits a finding about last_valid_timestep.
C24_NeverEmitted ==
    checkOp.op \in {"check_conditional_global_attributes", "check_future_timestep"} =>
        /\ LastValidFindings = {}
        /\ _requires_future_timestep_metadata(timeSteps) = "None"

\* a dataset with future timesteps and no last_valid_timestep attribute was
\* checked and the report came back empty
C24_FutureAndAbsent ==
    /\ checkOp.op = "check_conditional_global_attributes"
    /\ checkOp.config = <<"last_valid_timestep", "consistent_timestep_start">>
    /\ timeSteps = "future"
    /\ ~InAttrs("last_valid_timestep", globalAttrs)
    /\ checkOp.raised = ""
    /\ checkOp.report.results = <<>>

(***************************************************************************)
(* Properties of check_variable_timestep.                                  *)
(***************************************************************************)
\* the statuses of the last check's findings, in order
Statuses == [k \in 1..Len(checkOp.report.results) |->
                checkOp.report.results[k].status]

\* the timestep is variable: more than one unique difference between
\* consecutive time values
IsVariable == UniqueDiffs(timeSteps) > 1

\* C27: for a dataset whose time values can be analysed,
\* check_variable_timestep takes the timestep as variable iff there is more
\* than one unique difference between consecutive time values (fewer than
\* two time values are not variable).  Not variable: exactly one PASS.
\* Variable: a finding that is PASS iff allow_variable_timestep, and a
\* finding for consistent_timestep_start that is PASS if the attribute is
\* present and WARNING if it is absent.
C27_VariableIffSeveralDiffs ==
    (/\ checkOp.op \in {"check_variable_timestep", "check_variable_timestep_legacy"}
     /\ timeSteps \notin {"absent", "unanalysable"}) =>
        IF IsVariable
        THEN Statuses =
                 <<IF checkOp.config THEN "PASS" ELSE "FAIL",
                   IF InAttrs("consistent_timestep_start", globalAttrs)
                   THEN "PASS" ELSE "WARNING">>
        ELSE Statuses = <<"PASS">>

\* C27 for the check_variable_timestep the pipeline calls.
C27_PipelineVersion ==
    (/\ checkOp.op = "check_variable_timestep"
     /\ timeSteps \notin {"absent", "unanalysable"}) =>
        IF IsVariable
        THEN Statuses =
                 <<IF checkOp.config THEN "PASS" ELSE "FAIL",
                   IF InAttrs("consistent_timestep_start", globalAttrs)
                   THEN "PASS" ELSE "WARNING">>
        ELSE Statuses = <<"PASS">>

\* the earlier version has taken a dataset with a single time value as
\* variable
C27_SingleValueVariable ==
    /\ checkOp.op = "check_variable_timestep_legacy"
    /\ timeSteps = "single"
    /\ ~checkOp.config
    /\ Statuses[1] = "FAIL"
    /\ checkOp.report.results[1].requirement = "Variable timestep handling"

(***************************************************************************)
(* Properties of analyze_dataset_timesteps.                                *)
(***************************************************************************)
\* C25: whatever datasets were created, discarded and created again, and
\* whatever was assigned to their time coordinates, every
\* analyze_dataset_timesteps call returns what an uncached computation over
\* the passed dataset's time coordinate returns.
C25_SameAsUncached ==
    analysis.op = "analyze" =>
        /\ analysis.raised = Uncached(analysis.time).raised
        /\ analysis.value = Uncached(analysis.time).value

\* A call that finds nothing cached for the address returns what the
\* uncached computation returns.
C25_MissSameAsUncached ==
    (analysis.op = "analyze" /\ ~analysis.hit) =>
        /\ analysis.raised = Uncached(analysis.time).raised
        /\ analysis.value = Uncached(analysis.time).value

\* a dataset with variable timesteps was taken for a regular one, from the
\* cache entry of its address
C25_StaleEntry ==
    /\ analysis.op = "analyze"
    /\ analysis.hit
    /\ analysis.time = "variable"
    /\ analysis.value = <<FALSE, 1>>

(***************************************************************************)
(* Properties of CHECK_REGISTRY and skip_all_checks.                       *)
(***************************************************************************)
\* C28: while skip_all_checks is active every call of a decorated check
\* returns the stub's empty report; when no skip_all_checks is active every
\* decorated check, one first decorated inside the context included, is in
\* CHECK_REGISTRY with its original function, and no call fails on a
\* missing key.
C28_StubbedInsideRestoredAfter ==
    /\ (checkCall.op = "call" /\ checkCall.active) =>
           checkCall.outcome = "stub"
    /\ patches = <<>> =>
           \A key \in decorated :
               /\ key \in DOMAIN CHECK_REGISTRY
               /\ CHECK_REGISTRY[key] = "real"
    /\ checkCall.outcome # "KeyError"

\* C28 for the checks that were decorated while no skip_all_checks was
\* active.
C28_DecoratedOutside ==
    /\ (checkCall.op = "call" /\ checkCall.active /\ checkCall.early) =>
           checkCall.outcome = "stub"
    /\ patches = <<>> =>
           \A key \in outside :
               /\ key \in DOMAIN CHECK_REGISTRY
               /\ CHECK_REGISTRY[key] = "real"
    /\ (checkCall.op = "call" /\ checkCall.early) =>
           checkCall.outcome # "KeyError"

\* a check decorated inside the context was called after the context: its
\* key is gone from the registry
C28_KeyErrorAfterExit ==
    /\ checkCall.op = "call"
    /\ ~checkCall.active
    /\ checkCall.outcome = "KeyError"
    /\ ~checkCall.early

\* a check decorated inside the context ran its real implementation there
C28_RealInsideContext ==
    /\ checkCall.op = "call"
    /\ checkCall.active
    /\ checkCall.outcome = "real"

(***************************************************************************)
(* Properties of the order of the per-variable findings.                   *)
(***************************************************************************)
\* the names the per-variable loops go through, in the order of
\* ds.data_vars
DataVarOrder(dvs) ==
    LET checked(name) == name \in CompressionVars(dvs)
    IN SelectSeq([i \in 1..Len(dvs) |-> dvs[i].name], checked)

\* C26: reports are reproducible: the findings of a check over data
\* variables (order, section, requirement, status, detail) are those of
\* going through the variables in the dataset's data-variable order,
\* whatever order the set of names is iterated in.
C26_FindingsInDataVarOrder ==
    /\ checkOp.op = "check_compression" =>
           checkOp.report =
               check_compression(dataVars, DataVarOrder(dataVars),
                   checkOp.config.require_compression,
                   checkOp.config.recommended_compression).report
    /\ checkOp.op = "check_spatial_requirements" =>
           checkOp.report =
               check_spatial_requirements(dataVars, DataVarOrder(dataVars),
                   checkOp.config.resolution,
                   checkOp.config.min_crop_size).report

\* The findings are those of going through the variables in some order.
C26_FindingsInSomeOrder ==
    /\ checkOp.op = "check_compression" =>
           \E order \in Orders(CompressionVars(dataVars)) :
               checkOp.report =
                   check_compression(dataVars, order,
                       checkOp.config.require_compression,
                       checkOp.config.recommended_compression).report
    /\ checkOp.op = "check_spatial_requirements" =>
           \E order \in Orders(CompressionVars(dataVars)) :
               checkOp.report =
                   check_spatial_requirements(dataVars, order,
                       checkOp.config.resolution,
                       checkOp.config.min_crop_size).report

\* check_compression has reported the second data variable before the
\* first
C26_SecondVariableFirst ==
    /\ checkOp.op = "check_compression"
    /\ Len(dataVars) = 2
    /\ Len(checkOp.origin) = 2
    /\ checkOp.origin[1] = dataVars[2].name
    /\ checkOp.origin[2] = dataVars[1].name
    /\ checkOp.report.results[1] # checkOp.report.results[2]

(***************************************************************************)
(* Properties of the exit status.                                          *)
(***************************************************************************)
\* C29: a validation run (not --list) exits with status 0 only when
\* validate_dataset returned a report that has no FAIL finding; when
\* loading, opening the dataset or a check raised, the exit status is not 0.
C29_ZeroOnlyForCleanReport ==
    /\ (exitStatus = 0 /\ pc # "listed") =>
           (pc = "done" /\ ~has_fails(report))
    /\ pc \in {"load_error", "crashed"} => exitStatus # 0

\* The exit status of a run in which validate_dataset returned, and of a
\* run that ended in SystemExit.
C29_StatusWhenReturned ==
    /\ pc = "done" => exitStatus = (IF has_fails(report) THEN 1 ELSE 0)
    /\ pc = "load_error" => exitStatus = 1
    /\ pc = "usage_error" => exitStatus = UsageStatus

\* a check raised after an earlier check had reported a FAIL, and the
\* process exited with status 0
C29_CrashExitsZero ==
    /\ pc = "crashed"
    /\ "dataset_opened" \in effects
    /\ idx > 1
    /\ has_fails(report)
    /\ exitStatus = 0

(***************************************************************************)
(* Properties of the merges' effects.                                      *)
(***************************************************************************)
\* the reports other than these hold what they held before the last
\* operation
OnlyChanged(names) ==
    \A n \in ReportNames \ names :
        Content(lists, objects, n) = heapOp.before[n]

\* C30: A + B leaves A and B (results and ok) as they were and returns a
\* report whose results list is neither A's nor B's list, so a later add()
\* on the sum, on A or on B changes that report only; A += B changes A only
\* and leaves B's results and ok as they were.
C30_MergeChangesTargetOnly ==
    /\ heapOp.op = "plus" => OnlyChanged({"S"})
    /\ objects["S"].results \notin {objects["A"].results, objects["B"].results}
    /\ heapOp.op = "add" => OnlyChanged({heapOp.target})
    /\ heapOp.op = "iadd" => OnlyChanged({"A"})

\* add() was called on the sum of two reports that hold results
C30_AddOnSum ==
    /\ heapOp.op = "add"
    /\ heapOp.target = "S"
    /\ heapOp.before["S"].results # <<>>
    /\ Content(lists, objects, "A").results # <<>>
    /\ Content(lists, objects, "B").results # <<>>
====
